---- MODULE Spec2Model ----
(***************************************************************************)
(* Verification model of the logistics notification bot                    *)
(* (src/logistics-bot/bot.py, utils.py, report_generator.py).              *)
(*                                                                         *)
(* Time is counted in hours since an epoch, in UTC.  The backend tables    *)
(* are read-only for the bot; an external writer changes them.  The        *)
(* dispatcher job (check_database_changes) runs as its own task on the     *)
(* event loop: it is atomic between two awaits, and command handlers run   *)
(* while it is suspended in an await.                                      *)
(***************************************************************************)
EXTENDS Integers, Sequences, FiniteSets, TLC

\* ------------------------------------------------------------------ bounds
NumChats == 2
NumAdmins == 1
NumOrders == 1
\* the orders of the backend in SpecFrame
FrameOrders == 3
MaxTicks == 1
MaxEtaDay == 4
MaxCmds == 2
MaxSyncs == 1
NumReportOrders == 2
NumTasks == 1
NumContainers == 1
MaxUtilHour == 23
MaxRawLen == 12

\* ------------------------------------------------------- program constants
HoursPerDay == 24
TZOffsetHours == 5

TickHours == HoursPerDay \div 2
InitClock == TickHours

ChatIds == 1..NumChats
ADMIN_CHAT_IDS == 1..NumAdmins
OrderIds == 1..NumOrders

\* ------------------------------------------------------------- timestamps
\* A stored timestamp column: SQL NULL, a string that is no ISO timestamp,
\* or an ISO timestamp with a UTC offset, denoting the instant t.  A
\* function argument can also be the empty string.
NullTs == [kind |-> "null", t |-> 0]
BadTs == [kind |-> "bad", t |-> 0]
IsoTs(t) == [kind |-> "iso", t |-> t]

EmptyTs == [kind |-> "empty", t |-> 0]

\* `if eta:` -- None and the empty string are falsy.
Truthy(ts) == ts.kind \notin {"null", "empty"}

\* datetime.fromisoformat(s.replace('Z', '+00:00')): raises on a bad string.
ParseOk(ts) == ts.kind = "iso"

\* .astimezone(TIMEZONE): the wall-clock hour count in Asia/Ashgabat.
AsTimezone_utc(t) == t
AsTimezone(t) == t + TZOffsetHours

\* datetime.date(): the calendar day of a wall-clock value.
DateOf(local) == local \div HoursPerDay

\* (eta_date.date() - now.date()).days, both in the fixed zone.
DaysLeft_elapsed(ts, now_) == (ts.t - now_) \div HoursPerDay
DaysLeft(ts, now_) == DateOf(AsTimezone(ts.t)) - DateOf(AsTimezone(now_))

\* ---------------------------------------------------------------- backend
ActiveStatuses == {"New", "In Progress CHN", "In Transit CHN-IR",
                   "In Progress IR", "In Transit IR-TKM"}
TerminalStatuses == {"Completed", "Cancelled"}
OrderStatuses == ActiveStatuses \cup TerminalStatuses

EtaInstants == {d * HoursPerDay + 20 : d \in 0..MaxEtaDay}
EtaChoices == {NullTs, BadTs} \cup {IsoTs(t) : t \in EtaInstants}

VARIABLES
  clock,            \* the current instant (UTC hours)
  last_check_time,  \* bot.py:60, the watermark
  subscribers,      \* bot.py:61, the registry: the hash table of the set
  orders,           \* table cloud_orders: id -> row
  pc,               \* where check_database_changes is: idle, send, sleep, done
  now,              \* its local `now`
  notifs,           \* the work of the two loops: the changed orders (the message
                    \* of each is built when its loop reaches it), then
                    \* urgent_notifications
  k,                \* index of the notification being fanned out
  it_used,          \* the live set iterator: size of the set at creation
  it_pos,           \* the live set iterator: slots of the table it has passed
  attempts,         \* <<k, chat>> -> number of send_message calls this cycle
  snap,             \* k -> the registry when the fan-out of k began
  outcome,          \* how the last cycle ended
  q_since,          \* the `since` the last cycle's queries used
  q_fail,           \* the query of the last cycle that raised (0: none)
  reply,            \* the last reply of a command handler
  cmds,             \* commands handled so far
  syncs,            \* external writes so far
  tasks,            \* table cloud_tasks: id -> row
  containers,       \* table cloud_containers: id -> row
  out_report,       \* what the last /report computed
  out_pdf,          \* what the last generate_pdf_report put in the document
  out_list,         \* what the last listing command listed
  bcast,            \* where /notify_all is in its broadcast, and its counts
  replies,          \* the replies of the last admin or help command
  report_files,     \* the report files on disk, each named by the instant in
                    \* its name (Margiana_Report_<%Y%m%d_%H%M>.pdf)
  pdf_path,         \* /report_pdf's local pdf_path while reply_document is
                    \* awaited (-1: none)
  util_in,          \* the argument of the last utils.py call
  util_out,         \* what it returned
  running,          \* executions of the job between their start and their end
  q_sinces,         \* the `since` of each changed-record query of this cycle
  hist,             \* the order changes some cycle has composed or sent
  changed_orders,   \* the job's local changed_orders: the rows query 1 returned
  hpc               \* where the command handler being processed is suspended

vars == <<clock, last_check_time, subscribers, orders, pc, now, notifs, k,
          it_used, it_pos, attempts, snap, outcome,
          q_since, q_fail, reply, cmds, syncs, tasks, containers,
          out_report, out_pdf, out_list, bcast, replies, report_files, pdf_path,
          util_in, util_out, running, q_sinces, hist, changed_orders, hpc>>

dispVars == <<pc, now, notifs, k, it_used, it_pos, attempts, snap, outcome,
              q_since, q_fail, running, q_sinces, hist, changed_orders>>

reportVars == <<tasks, containers, out_report, out_pdf, out_list>>

auxVars == <<bcast, replies, report_files, pdf_path, util_in, util_out, hpc>>

\* ------------------------------------------------------------- helpers
\* /notify_all is not running; no utils.py call was made.
NoBroadcast == [pc |-> "idle", used |-> 0, pos |-> 0, sent_count |-> 0,
                failed_count |-> 0, attempts |-> [c \in ChatIds |-> 0],
                snap |-> {}]
NoText == [form |-> "not_called", day |-> 0, chars |-> <<>>]
NoUtilIn == [status |-> "", ts |-> NullTs, raw |-> <<>>]
NoUtilOut == [glyph |-> "", table_glyph |-> "", calc |-> "not_called", days |-> 0,
              text |-> NoText]

\* response.data of a request without .order(): the rows that match, as a
\* sequence of ids.  The request fixes no order, so every arrangement of the
\* rows is a possible answer.
RECURSIVE RowOrders(_)
RowOrders(S) ==
  IF S = {} THEN {<<>>}
  ELSE UNION {{<<x>> \o s : s \in RowOrders(S \ {x})} : x \in S}

MaxNotifs == NumOrders + NumOrders
NotifIdx == 1..MaxNotifs
NoAttempts == [p \in NotifIdx \X ChatIds |-> 0]
NoSnap == [j \in NotifIdx |-> {}]

\* ------------------------------------------- check_database_changes: queries
\* .gte('last_sync_date', last_check_time.isoformat())
ChangedSince_strict(row, since) == row.last_sync > since
ChangedSince(row, since) == row.last_sync >= since

\* supabase.table(t).select(...).execute(): what the request leaves in the
\* table.  Every request of the program is a select.
Select_delete(table) == <<>>
Select(table) == table

\* query 1 (bot.py:1074-1079): the changed orders.
ChangedOrders(since) ==
  RowOrders({o \in DOMAIN orders : ChangedSince(orders[o], since)})

\* query 2 (bot.py:1082-1087) and query 3 (bot.py:1090-1095): the changed
\* containers and tasks.  Nothing after the queries reads either result.
ChangedContainers(since) ==
  RowOrders({i \in DOMAIN containers : ChangedSince(containers[i], since)})
ChangedTasks(since) ==
  RowOrders({i \in DOMAIN tasks : ChangedSince(tasks[i], since)})

\* query 4 (bot.py:1098-1105): eta_date not null, status neither Completed
\* nor Cancelled.
UrgentQuery ==
  RowOrders({o \in DOMAIN orders : /\ orders[o].eta.kind # "null"
                                    /\ orders[o].status # "Completed"
                                    /\ orders[o].status # "Cancelled"})

\* bot.py:1079: changed_orders = response.data, the rows as they were when
\* the request was answered (the columns the loop at 1135 reads).
ResponseData(ids) ==
  [j \in 1..Len(ids) |-> [id |-> ids[j],
                          status |-> orders[ids[j]].status,
                          last_sync |-> orders[ids[j]].last_sync]]

\* bot.py:1116: days_left in [3, 2, 1, 0]
ReminderPoint_range(d) == d <= 3
ReminderPoint(d) == d \in {3, 2, 1, 0}

\* bot.py:1120-1125: the wording of a reminder.
ReminderText(d) == IF d = 0 THEN "today" ELSE IF d = 1 THEN "tomorrow" ELSE "soon"

StatusNotif(row) ==
  [kind |-> "status", order |-> row.id, status |-> row.status,
   days |-> 0, text |-> "updated", sync |-> row.last_sync]
UrgentNotif(o, d) ==
  [kind |-> "urgent", order |-> o, status |-> "", days |-> d,
   text |-> ReminderText(d), sync |-> 0]

\* bot.py:1108-1129: one reminder per order at a reminder point; a row whose
\* ETA does not parse is skipped by the bare except.
RECURSIVE UrgentNotifications(_, _)
UrgentNotifications(ids, now_) ==
  IF ids = <<>> THEN <<>>
  ELSE LET o == Head(ids)
           eta == orders[o].eta
           rest == UrgentNotifications(Tail(ids), now_)
       IN IF Truthy(eta) /\ ParseOk(eta) /\ ReminderPoint(DaysLeft(eta, now_))
          THEN <<UrgentNotif(o, DaysLeft(eta, now_))>> \o rest
          ELSE rest

\* bot.py:1135-1140: one status message per changed order.
RECURSIVE StatusNotifications(_)
StatusNotifications(rows) ==
  IF rows = <<>> THEN <<>>
  ELSE <<StatusNotif(Head(rows))>> \o StatusNotifications(Tail(rows))

\* The messages of a cycle in the order the two loops send them: changed is
\* the result of query 1, all_orders (ids) the result of query 4.
Compose(changed, all_orders, now_) ==
  StatusNotifications(changed) \o UrgentNotifications(all_orders, now_)

\* ------------------------------------------------------------ the registry
\* `subscribers` is a CPython set of chat ids (bot.py:61).  The set keeps its
\* elements in a hash table of slots, and a loop over the set walks the slots
\* in table order.  A slot is unused (never held anything), a dummy (left by
\* a removed element) or holds a key, a chat id of either sign.  The table
\* has PySet_MINSIZE slots at first and always a power of two.
PySet_MINSIZE == 8
LINEAR_PROBES == 9
PerturbShift == 32

\* The elements of the set.
Keys(t) == {t[i].key : i \in {j \in DOMAIN t : t[j].st = "key"}}

\* The search of set.add for key: from slot i it looks at `probes` further
\* slots in a row (none when fewer than LINEAR_PROBES slots follow i), then
\* jumps to slot (5i + 1 + perturb) mod size with perturb shifted right by 5
\* bits.  It ends at the key or at a never-used slot; a key that is absent
\* goes to the last dummy the search passed, or else to that unused slot.
\* j is the slot looked at (slots count from 0), free the last dummy passed.
\* perturb is an unsigned 64-bit number, kept as <<its top 4 bits, its
\* middle 30 bits, its low 30 bits>>.
RECURSIVE LookSlot(_, _, _, _, _, _, _)
LookSlot(t, key, i, j, probes, perturb, free) ==
  LET e == t[j + 1]
      free2 == IF e.st = "dummy" THEN j ELSE free
      p2 == <<perturb[1] \div PerturbShift,
              (perturb[2] \div PerturbShift) + (perturb[1] % PerturbShift) * 2^25,
              (perturb[3] \div PerturbShift) + (perturb[2] % PerturbShift) * 2^25>>
      i2 == (i * 5 + 1 + p2[3]) % Len(t)
  IN IF e.st = "unused"
     THEN IF free >= 0 THEN [slot |-> free, found |-> FALSE, fresh |-> FALSE]
          ELSE [slot |-> j, found |-> FALSE, fresh |-> TRUE]
     ELSE IF e.st = "key" /\ e.key = key
     THEN [slot |-> j, found |-> TRUE, fresh |-> FALSE]
     ELSE IF probes > 0 THEN LookSlot(t, key, i, j + 1, probes - 1, perturb, free2)
     ELSE LookSlot(t, key, i2, i2,
                   IF i2 + LINEAR_PROBES <= Len(t) - 1 THEN LINEAR_PROBES ELSE 0,
                   p2, free2)

\* hash(c) = c for an int, except hash(-1) = -2; the search starts at the
\* low bits of the hash, with the hash as a two's complement number for
\* perturb.
SlotFor(t, key) ==
  LET h == IF key = -1 THEN -2 ELSE key
      i == h % Len(t)
  IN LookSlot(t, key, i, i,
              IF i + LINEAR_PROBES <= Len(t) - 1 THEN LINEAR_PROBES ELSE 0,
              <<IF h < 0 THEN 15 ELSE 0, (h \div 2^30) % 2^30, h % 2^30>>, -1)

\* A table that has filled up is rebuilt: the new size is the first power
\* of two above minused, and the elements are inserted again in the order
\* of their old slots; the dummies are dropped.
RECURSIVE NewSize(_, _)
NewSize(n, minused) == IF n <= minused THEN NewSize(2 * n, minused) ELSE n

RECURSIVE Reinsert(_, _, _)
Reinsert(old, j, new) ==
  IF j > Len(old) THEN new
  ELSE IF old[j].st = "key"
  THEN Reinsert(old, j + 1,
                [new EXCEPT ![SlotFor(new, old[j].key).slot + 1] = old[j]])
  ELSE Reinsert(old, j + 1, new)

\* set.add: an absent key is stored; when it took a never-used slot and
\* 5 * fill >= 3 * mask (fill counts the elements and the dummies) the
\* table is rebuilt for 4 * used elements (2 * used above 50000).
\* set.remove: the slot of the key becomes a dummy (remove raises KeyError
\* on a missing element; the handlers test membership first).
RegistryAdd_noop(S, c) == S
RegistryAdd(S, c) ==
  LET r == SlotFor(S, c)
      t2 == [S EXCEPT ![r.slot + 1] = [st |-> "key", key |-> c]]
      fill == Cardinality({i \in DOMAIN t2 : t2[i].st # "unused"})
      used == Cardinality(Keys(t2))
  IN IF r.found THEN S
     ELSE IF ~r.fresh \/ fill * 5 < (Len(S) - 1) * 3 THEN t2
     ELSE Reinsert(t2, 1, [i \in 1..NewSize(PySet_MINSIZE,
                                            IF used > 50000 THEN used * 2
                                            ELSE used * 4) |->
                             [st |-> "unused", key |-> 0]])
RegistryRemove(S, c) ==
  [i \in DOMAIN S |-> IF S[i] = [st |-> "key", key |-> c]
                      THEN [st |-> "dummy", key |-> 0] ELSE S[i]]

\* set(ADMIN_CHAT_IDS): the ids of the list are added one by one.
RECURSIVE SetOf(_)
SetOf(ids) ==
  IF ids = <<>> THEN [i \in 1..PySet_MINSIZE |-> [st |-> "unused", key |-> 0]]
  ELSE RegistryAdd(SetOf(SubSeq(ids, 1, Len(ids) - 1)), ids[Len(ids)])

\* ------------------------------------------- check_database_changes: fan-out
\* `for chat_id in subscribers` iterates the live set.  CPython's set
\* iterator remembers the size of the set at its creation (used) and how
\* many slots of the table it has passed (pos); every next() first compares
\* the size and raises RuntimeError when it differs, then yields the element
\* of the first occupied slot after pos.  Run the two nested loops from
\* notification k_ with iterator (used, pos) up to the next await: the next
\* send (to chat), the end of the loops, or the RuntimeError.
RECURSIVE IterFrom(_, _, _, _, _)
IterFrom(k_, used, pos, subs, n) ==
  IF k_ > n THEN [res |-> "done", k |-> k_, used |-> used, pos |-> pos, chat |-> 0]
  ELSE IF used # Cardinality(Keys(subs))
  THEN [res |-> "error", k |-> k_, used |-> used, pos |-> pos, chat |-> 0]
  ELSE LET rest == {i \in (pos + 1)..Len(subs) : subs[i].st = "key"}
       IN IF rest # {}
          THEN LET i == CHOOSE x \in rest : \A y \in rest : x <= y
               IN [res |-> "send", k |-> k_, used |-> used, pos |-> i,
                   chat |-> subs[i].key]
          ELSE IterFrom(k_ + 1, Cardinality(Keys(subs)), 0, subs, n)

\* bot.py:1162: the watermark a completed cycle leaves.
WatermarkAfter_rewind(now_) == now_ - TickHours
WatermarkAfter(now_) == now_

\* The state the loops leave at the next await or at the end of the cycle.
\* kOld is the last notification whose iterator existed before this step.
Resume(r, kOld, n, now_) ==
  /\ snap' = [j \in NotifIdx |->
                IF j > kOld /\ j <= r.k /\ j <= n THEN Keys(subscribers) ELSE
                IF j > kOld THEN {} ELSE snap[j]]
  /\ k' = r.k
  /\ it_used' = r.used
  /\ it_pos' = r.pos
  /\ IF r.res = "send"
     THEN /\ pc' = "send"
          /\ attempts' = [IF kOld = 0 THEN NoAttempts ELSE attempts
                            EXCEPT ![<<r.k, r.chat>>] = @ + 1]
          /\ outcome' = "running"
          /\ UNCHANGED last_check_time
     ELSE /\ pc' = "done"
          /\ attempts' = IF kOld = 0 THEN NoAttempts ELSE attempts
          /\ IF r.res = "done"
             THEN /\ last_check_time' = WatermarkAfter(now_)
                  /\ outcome' = "ok"
             ELSE /\ outcome' = "iter_error"
                  /\ UNCHANGED last_check_time

\* What the cycles have done so far to each change of an order (an order
\* with one value of last_sync_date): composed a status message for it, and
\* called send_message with that message at least once.  The message of a
\* changed order is built when the outer loop reaches the order (1136-1140),
\* right before its `for chat_id in subscribers`: in this step, for the
\* notifications after kOld up to r.k.
NoHist == [composed |-> {}, notified |-> {}]
StatusChanges(ns, from, to) ==
  {<<ns[j].order, ns[j].sync>> :
     j \in {i \in 1..Len(ns) : i > from /\ i <= to /\ ns[i].kind = "status"}}
HistAfter(h, ns, r, kOld) ==
  [composed |-> h.composed \cup StatusChanges(ns, kOld, r.k),
   notified |-> IF r.res = "send" /\ ns[r.k].kind = "status"
                THEN h.notified \cup {<<ns[r.k].order, ns[r.k].sync>>}
                ELSE h.notified]

\* A query that raises leaves the try block: the except at 1169 only logs.
\* qf is the query that raises (0: none).
QueriesAbort_lenient(qf) == qf \in 1..3
QueriesAbort(qf) == qf # 0

\* bot.py:1226: run_repeating without job_kwargs.  The scheduler keeps at
\* most max_instances (default 1) executions of a job running and skips a
\* run that is due while that many are still between start and end.  That
\* rule is the scheduler's, not this program's: here it is the guard of
\* CycleStart, and the model takes it as given.
MaxInstances == 1
JobMayStart(n) == n < MaxInstances

\* bot.py:1076, 1084, 1092: each changed-record query reads the global
\* watermark for itself; nothing of the process runs between the three.
WatermarkRead_fresh(j) == IF j = 1 THEN last_check_time ELSE clock
WatermarkRead(j) == last_check_time

\* The supabase client is synchronous: each request blocks the event loop
\* until it is answered, so no handler runs between two queries of a cycle,
\* while the external writer and the clock go on.
\* bot.py:1065-1079: the job starts, takes `now` and sends query 1.
CycleStart(fail) ==
  LET qf == IF fail THEN 1 ELSE 0
  IN /\ JobMayStart(running)
     /\ running' = running + 1
     /\ now' = clock
     /\ q_since' = last_check_time
     /\ q_sinces' = <<WatermarkRead(1)>>
     /\ q_fail' = qf
     /\ notifs' = <<>>
     /\ attempts' = NoAttempts
     /\ snap' = NoSnap
     /\ k' = 0 /\ it_used' = 0 /\ it_pos' = 0
     /\ IF QueriesAbort(qf)
        THEN /\ outcome' = "query_failed"
             /\ pc' = "done"
             /\ changed_orders' = <<>>
        ELSE /\ \E ids \in ChangedOrders(WatermarkRead(1)) :
                  changed_orders' = ResponseData(ids)
             /\ pc' = "q2"
             /\ UNCHANGED outcome
     /\ orders' = Select(orders)
     /\ UNCHANGED <<clock, last_check_time, subscribers, reply, cmds, syncs, hist>>
     /\ UNCHANGED reportVars
     /\ UNCHANGED auxVars

\* bot.py:1082-1087: query 2 is answered.
QueryContainers(fail) ==
  LET qf == IF fail THEN 2 ELSE 0
  IN /\ pc = "q2"
     /\ q_sinces' = Append(q_sinces, WatermarkRead(2))
     /\ q_fail' = qf
     /\ IF QueriesAbort(qf)
        THEN outcome' = "query_failed" /\ pc' = "done"
        ELSE pc' = "q3" /\ UNCHANGED outcome
     /\ containers' = Select(containers)
     /\ UNCHANGED <<clock, last_check_time, subscribers, orders, reply, cmds, syncs,
                    now, notifs, k, it_used, it_pos, attempts, snap, q_since,
                    running, hist, changed_orders>>
     /\ UNCHANGED <<tasks, out_report, out_pdf, out_list>>
     /\ UNCHANGED auxVars

\* bot.py:1090-1095: query 3 is answered.
QueryTasks(fail) ==
  LET qf == IF fail THEN 3 ELSE 0
  IN /\ pc = "q3"
     /\ q_sinces' = Append(q_sinces, WatermarkRead(3))
     /\ q_fail' = qf
     /\ IF QueriesAbort(qf)
        THEN outcome' = "query_failed" /\ pc' = "done"
        ELSE pc' = "q4" /\ UNCHANGED outcome
     /\ tasks' = Select(tasks)
     /\ UNCHANGED <<clock, last_check_time, subscribers, orders, reply, cmds, syncs,
                    now, notifs, k, it_used, it_pos, attempts, snap, q_since,
                    running, hist, changed_orders>>
     /\ UNCHANGED <<containers, out_report, out_pdf, out_list>>
     /\ UNCHANGED auxVars

\* bot.py:1098-1145: query 4 is answered with the rows all_orders; the
\* reminders are composed and the loops run to their first await.
QueryUrgentSteps(fail, all_orders) ==
  LET qf == IF fail THEN 4 ELSE 0
  IN /\ pc = "q4"
     /\ q_fail' = qf
     /\ IF QueriesAbort(qf)
        THEN /\ outcome' = "query_failed"
             /\ pc' = "done"
             /\ UNCHANGED <<last_check_time, notifs, k, it_used, it_pos, attempts,
                            snap>>
        ELSE LET ns == Compose(changed_orders, all_orders, now)
                 r == IterFrom(1, Cardinality(Keys(subscribers)), 0, subscribers, Len(ns))
             IN /\ notifs' = ns
                /\ Resume(r, 0, Len(ns), now)
     /\ orders' = Select(orders)
     /\ UNCHANGED <<clock, subscribers, reply, cmds, syncs, now, q_since, running,
                    q_sinces, changed_orders>>
     /\ UNCHANGED reportVars
     /\ UNCHANGED auxVars

QueryUrgent(fail) ==
  \E all_orders \in UrgentQuery : QueryUrgentSteps(fail, all_orders) /\ UNCHANGED hist

\* The same step, with the history of the composed and sent changes kept.
QueryUrgentH(fail) ==
  \E all_orders \in UrgentQuery :
    /\ QueryUrgentSteps(fail, all_orders)
    /\ hist' = IF QueriesAbort(IF fail THEN 4 ELSE 0) THEN hist
               ELSE LET ns == Compose(changed_orders, all_orders, now)
                    IN HistAfter(hist, ns,
                                 IterFrom(1, Cardinality(Keys(subscribers)), 0, subscribers,
                                          Len(ns)), 0)

\* bot.py:1145-1149 and 1155-1159: send_message returns or raises.  The
\* counter notifications_sent only selects the log line at 1164-1167 and is
\* not kept.
SendReturnsSteps(ok) ==
  /\ pc = "send"
  /\ IF ok
     THEN /\ pc' = "sleep"
          /\ UNCHANGED <<last_check_time, k, it_used, it_pos, attempts, snap, outcome>>
     ELSE Resume(IterFrom(k, it_used, it_pos, subscribers, Len(notifs)),
                 k, Len(notifs), now)
  /\ UNCHANGED <<clock, subscribers, orders, now, notifs, q_since, q_fail,
                 reply, cmds, syncs, running, q_sinces, changed_orders>>
  /\ UNCHANGED reportVars
  /\ UNCHANGED auxVars

SendReturns(ok) == SendReturnsSteps(ok) /\ UNCHANGED hist

SendReturnsH(ok) ==
  /\ SendReturnsSteps(ok)
  /\ hist' = IF ok THEN hist
             ELSE HistAfter(hist, notifs,
                            IterFrom(k, it_used, it_pos, subscribers, Len(notifs)), k)

\* bot.py:1147 and 1157: asyncio.sleep returns.
SleepReturnsSteps ==
  /\ pc = "sleep"
  /\ Resume(IterFrom(k, it_used, it_pos, subscribers, Len(notifs)),
            k, Len(notifs), now)
  /\ UNCHANGED <<clock, subscribers, orders, now, notifs, q_since, q_fail,
                 reply, cmds, syncs, running, q_sinces, changed_orders>>
  /\ UNCHANGED reportVars
  /\ UNCHANGED auxVars

SleepReturns == SleepReturnsSteps /\ UNCHANGED hist

SleepReturnsH ==
  /\ SleepReturnsSteps
  /\ hist' = HistAfter(hist, notifs,
                       IterFrom(k, it_used, it_pos, subscribers, Len(notifs)), k)

\* The job returns (after the log lines 1164-1170): its locals are gone.
CycleExit ==
  /\ pc = "done"
  /\ pc' = "idle"
  /\ now' = 0
  /\ notifs' = <<>>
  /\ k' = 0 /\ it_used' = 0 /\ it_pos' = 0
  /\ attempts' = NoAttempts
  /\ snap' = NoSnap
  /\ q_fail' = 0
  /\ running' = running - 1
  /\ q_sinces' = <<>>
  /\ changed_orders' = <<>>
  /\ UNCHANGED hist
  /\ UNCHANGED <<clock, last_check_time, subscribers, orders, outcome, q_since,
                 reply, cmds, syncs>>
  /\ UNCHANGED reportVars
  /\ UNCHANGED auxVars

\* ----------------------------------------------------- registry handlers
\* A handler runs when the event loop is free: the job is idle or suspended
\* in an await (not inside a blocking request, and not in the await-free
\* tail "done").  The registry handlers change the registry before their
\* only await (the reply), so each is one step.
\* Updates are processed one at a time (bot.py:1217 builds the application
\* without concurrent_updates), so no handler starts while another one is
\* suspended in an await.
LoopFree == pc \in {"idle", "send", "sleep"}
HandlerMayStart == LoopFree /\ bcast.pc \notin {"send", "sleep"} /\ hpc = "none"
HandlerMayRun == HandlerMayStart /\ cmds < MaxCmds

\* bot.py:113-127
StartCmd(c) ==
  /\ subscribers' = IF c \notin Keys(subscribers) THEN RegistryAdd(subscribers, c)
                    ELSE subscribers
  /\ reply' = "welcome"
  /\ HandlerMayRun
  /\ cmds' = cmds + 1
  /\ UNCHANGED syncs
  /\ UNCHANGED <<clock, last_check_time, orders>>
  /\ UNCHANGED dispVars
  /\ UNCHANGED reportVars
  /\ UNCHANGED auxVars

\* bot.py:889-905
SubscribeCmd(c) ==
  /\ IF c \in Keys(subscribers)
     THEN /\ reply' = "already_subscribed"
          /\ UNCHANGED subscribers
     ELSE /\ subscribers' = RegistryAdd(subscribers, c)
          /\ reply' = "subscribed"
  /\ HandlerMayRun
  /\ cmds' = cmds + 1
  /\ UNCHANGED syncs
  /\ UNCHANGED <<clock, last_check_time, orders>>
  /\ UNCHANGED dispVars
  /\ UNCHANGED reportVars
  /\ UNCHANGED auxVars

\* bot.py:907-916
UnsubscribeGuard_always(S, c) == TRUE
UnsubscribeGuard(S, c) == c \in Keys(S)

UnsubscribeCmd(c) ==
  /\ IF UnsubscribeGuard(subscribers, c)
     THEN IF c \in Keys(subscribers)
          THEN /\ subscribers' = RegistryRemove(subscribers, c)
               /\ reply' = "unsubscribed"
          ELSE /\ reply' = "KeyError"
               /\ UNCHANGED subscribers
     ELSE /\ reply' = "not_subscribed"
          /\ UNCHANGED subscribers
  /\ HandlerMayRun
  /\ cmds' = cmds + 1
  /\ UNCHANGED syncs
  /\ UNCHANGED <<clock, last_check_time, orders>>
  /\ UNCHANGED dispVars
  /\ UNCHANGED reportVars
  /\ UNCHANGED auxVars

\* bot.py:129-168: /help replies and touches nothing else.
HelpCmd(c) ==
  /\ HandlerMayRun
  /\ cmds' = cmds + 1
  /\ reply' = "help"
  /\ replies' = <<"help">>
  /\ UNCHANGED <<clock, last_check_time, subscribers, orders, syncs>>
  /\ UNCHANGED dispVars
  /\ UNCHANGED reportVars
  /\ UNCHANGED <<bcast, report_files, pdf_path, util_in, util_out, hpc>>

\* -------------------------------------------------------- admin commands
\* bot.py:922, 957, 971: chat_id not in ADMIN_CHAT_IDS
IsAdmin_subscriber(c) == c \in Keys(subscribers)
IsAdmin(c) == c \in ADMIN_CHAT_IDS

\* bot.py:939 and 943: the two counters of the broadcast.
CountFailure_dropped(b) == b
CountFailure(b) == [b EXCEPT !.failed_count = @ + 1]

\* bot.py:936: the loop asks the live set iterator for its next element and
\* either sends to it, or leaves the loop and replies with the counts
\* (945-949), or lets the RuntimeError out of the handler.
NotifyNext(b, sofar) ==
  LET r == IterFrom(1, b.used, b.pos, subscribers, 1)
  IN IF r.res = "send"
     THEN /\ bcast' = [b EXCEPT !.pc = "send", !.pos = r.pos,
                                 !.attempts[r.chat] = @ + 1]
          /\ replies' = sofar
          /\ UNCHANGED reply
     ELSE IF r.res = "done"
     THEN /\ bcast' = [b EXCEPT !.pc = "reported"]
          /\ reply' = "notify_report"
          /\ replies' = sofar \o <<"notify_report">>
     ELSE /\ bcast' = [b EXCEPT !.pc = "iter_error"]
          /\ replies' = sofar
          /\ UNCHANGED reply

\* bot.py:918-936: /notify_all up to its first await.
NotifyAllCmd(c, has_args) ==
  /\ HandlerMayRun
  /\ cmds' = cmds + 1
  /\ IF ~IsAdmin(c)
     THEN /\ reply' = "admin_only"
          /\ replies' = <<"admin_only">>
          /\ UNCHANGED bcast
     ELSE IF ~has_args
     THEN /\ reply' = "usage"
          /\ replies' = <<"usage">>
          /\ UNCHANGED bcast
     ELSE NotifyNext([NoBroadcast EXCEPT !.used = Cardinality(Keys(subscribers)),
                                         !.snap = Keys(subscribers)], <<>>)
  /\ UNCHANGED <<clock, last_check_time, subscribers, orders, syncs>>
  /\ UNCHANGED dispVars
  /\ UNCHANGED reportVars
  /\ UNCHANGED <<report_files, pdf_path, util_in, util_out, hpc>>

\* bot.py:938-943: send_message returns or raises.
NotifySendReturns(ok) ==
  /\ bcast.pc = "send"
  /\ LoopFree
  /\ IF ok
     THEN /\ bcast' = [bcast EXCEPT !.sent_count = @ + 1, !.pc = "sleep"]
          /\ UNCHANGED <<reply, replies>>
     ELSE NotifyNext(CountFailure(bcast), replies)
  /\ UNCHANGED <<clock, last_check_time, subscribers, orders, cmds, syncs>>
  /\ UNCHANGED dispVars
  /\ UNCHANGED reportVars
  /\ UNCHANGED <<report_files, pdf_path, util_in, util_out, hpc>>

\* bot.py:940: asyncio.sleep returns.
NotifySleepReturns ==
  /\ bcast.pc = "sleep"
  /\ LoopFree
  /\ NotifyNext(bcast, replies)
  /\ UNCHANGED <<clock, last_check_time, subscribers, orders, cmds, syncs>>
  /\ UNCHANGED dispVars
  /\ UNCHANGED reportVars
  /\ UNCHANGED <<report_files, pdf_path, util_in, util_out, hpc>>

\* bot.py:953-961: /check_updates up to its first await: the rejection, or
\* the first reply of the stub.
CheckUpdatesCmd_runs(c) ==
  /\ HandlerMayRun
  /\ cmds' = cmds + 1
  /\ IF ~IsAdmin(c)
     THEN /\ reply' = "admin_only"
          /\ replies' = <<"admin_only">>
          /\ UNCHANGED <<hpc, last_check_time>>
     ELSE /\ reply' = "checking"
          /\ replies' = <<"checking">>
          /\ hpc' = "check_updates"
          /\ last_check_time' = WatermarkAfter(clock)
  /\ UNCHANGED <<clock, subscribers, orders, syncs>>
  /\ UNCHANGED dispVars
  /\ UNCHANGED reportVars
  /\ UNCHANGED <<bcast, report_files, pdf_path, util_in, util_out>>

CheckUpdatesCmd(c) ==
  /\ HandlerMayRun
  /\ cmds' = cmds + 1
  /\ IF ~IsAdmin(c)
     THEN /\ reply' = "admin_only"
          /\ replies' = <<"admin_only">>
          /\ UNCHANGED hpc
     ELSE /\ reply' = "checking"
          /\ replies' = <<"checking">>
          /\ hpc' = "check_updates"
  /\ UNCHANGED <<clock, last_check_time, subscribers, orders, syncs>>
  /\ UNCHANGED dispVars
  /\ UNCHANGED reportVars
  /\ UNCHANGED <<bcast, report_files, pdf_path, util_in, util_out>>

\* bot.py:961-965: the await of the first reply returns.  The handler has no
\* try: when the reply was sent (ok) the stub sends its second reply and the
\* handler ends; when the reply raised, the handler ends there, with no
\* second reply.
CheckUpdatesDone(ok) ==
  /\ hpc = "check_updates"
  /\ LoopFree
  /\ reply' = IF ok THEN "check_done" ELSE reply
  /\ replies' = IF ok THEN Append(replies, "check_done") ELSE replies
  /\ hpc' = "none"
  /\ UNCHANGED <<clock, last_check_time, subscribers, orders, cmds, syncs>>
  /\ UNCHANGED dispVars
  /\ UNCHANGED reportVars
  /\ UNCHANGED <<bcast, report_files, pdf_path, util_in, util_out>>

\* bot.py:967-995: /stats
StatsCmd(c) ==
  /\ HandlerMayRun
  /\ cmds' = cmds + 1
  /\ IF ~IsAdmin(c)
     THEN /\ reply' = "admin_only"
          /\ replies' = <<"admin_only">>
     ELSE /\ reply' = "stats"
          /\ replies' = <<"stats">>
  /\ UNCHANGED <<clock, last_check_time, subscribers, orders, syncs>>
  /\ UNCHANGED dispVars
  /\ UNCHANGED reportVars
  /\ UNCHANGED <<bcast, report_files, pdf_path, util_in, util_out, hpc>>

\* ---------------------------------------------------------- environment
\* Time passes.
Tick ==
  /\ pc # "done"
  /\ clock < InitClock + MaxTicks * TickHours
  /\ clock' = clock + TickHours
  /\ UNCHANGED <<last_check_time, subscribers, orders, reply, cmds, syncs>>
  /\ UNCHANGED dispVars
  /\ UNCHANGED reportVars
  /\ UNCHANGED auxVars

\* The external system synchronises an order: new status, last_sync_date now.
BackendSync(o, s) ==
  /\ o \in DOMAIN orders
  /\ orders[o].status # s
  /\ orders' = [orders EXCEPT ![o].status = s, ![o].last_sync = clock]
  /\ pc # "done"
  /\ syncs < MaxSyncs
  /\ syncs' = syncs + 1
  /\ UNCHANGED cmds
  /\ UNCHANGED <<clock, last_check_time, subscribers, reply>>
  /\ UNCHANGED dispVars
  /\ UNCHANGED reportVars
  /\ UNCHANGED auxVars

\* The external system stamps last_sync_date itself; the row can reach the
\* backend later than its stamp says (stamp is after the process start and
\* before now).
SyncStamps == {InitClock + i * TickHours : i \in 0..MaxTicks}

BackendSyncDelayed(o, s, stamp) ==
  /\ o \in DOMAIN orders
  /\ orders[o].status # s
  /\ stamp < clock
  /\ orders' = [orders EXCEPT ![o].status = s, ![o].last_sync = stamp]
  /\ pc # "done"
  /\ syncs < MaxSyncs
  /\ syncs' = syncs + 1
  /\ UNCHANGED cmds
  /\ UNCHANGED <<clock, last_check_time, subscribers, reply>>
  /\ UNCHANGED dispVars
  /\ UNCHANGED reportVars
  /\ UNCHANGED auxVars

\* ------------------------------------------------------- report composer
IsActiveOrder(o) == o.status \notin {"Completed", "Cancelled"}
IsCompleted(r) == r.status = "Completed"
InTransit(c) == c.arrival_turkmenistan_date.kind = "null"
Delivered(c) == c.client_receiving_date.kind # "null"
InActiveList(o) == o.status \in ActiveStatuses

\* bot.py:644-647: the generator parses every truthy due_date before it
\* looks at the status; a string that does not parse raises out of it.
OverdueRaises == \E i \in DOMAIN tasks :
                   Truthy(tasks[i].due_date) /\ ~ParseOk(tasks[i].due_date)
IsOverdueTask(now_) ==
  {i \in DOMAIN tasks : /\ Truthy(tasks[i].due_date)
                         /\ ParseOk(tasks[i].due_date)
                         /\ tasks[i].due_date.t < now_
                         /\ tasks[i].status # "Completed"}

\* bot.py:666 and 844: 0 <= days_left <= 3
UrgentRange(d) == 0 <= d /\ d <= 3

\* bot.py:659-669: the urgent orders of /report, taken from all orders.
ReportUrgentOrders(now_) ==
  {o \in DOMAIN orders : /\ Truthy(orders[o].eta)
                          /\ ParseOk(orders[o].eta)
                          /\ UrgentRange(DaysLeft(orders[o].eta, now_))}

NoFigures ==
  [total_orders |-> 0, active_orders |-> 0, completed_orders |-> 0,
   total_tasks |-> 0, completed_tasks |-> 0, total_containers |-> 0,
   in_transit |-> 0, no_photo |-> 0, no_local |-> 0, no_tex |-> 0]
NoReport == [ok |-> FALSE, reply |-> "none", fig |-> NoFigures,
             overdue_tasks |-> 0, delivered |-> 0, urgent_orders |-> {}]
NoPdf == [ok |-> FALSE, fig |-> NoFigures]
NoList == [cmd |-> "none", ok |-> FALSE, rows |-> <<>>]

\* bot.py:637-656
ReportFigures ==
  [total_orders |-> Cardinality(DOMAIN orders),
   active_orders |-> Cardinality({i \in DOMAIN orders : IsActiveOrder(orders[i])}),
   completed_orders |-> Cardinality({i \in DOMAIN orders : IsCompleted(orders[i])}),
   total_tasks |-> Cardinality(DOMAIN tasks),
   completed_tasks |-> Cardinality({i \in DOMAIN tasks : IsCompleted(tasks[i])}),
   total_containers |-> Cardinality(DOMAIN containers),
   in_transit |-> Cardinality({i \in DOMAIN containers : InTransit(containers[i])}),
   no_photo |-> Cardinality({i \in DOMAIN orders : ~orders[i].has_loading_photo}),
   no_local |-> Cardinality({i \in DOMAIN orders : ~orders[i].has_local_charges}),
   no_tex |-> Cardinality({i \in DOMAIN orders : ~orders[i].has_tex})]

\* report_generator.py:93-101 and 182-184
PdfFigures ==
  [total_orders |-> Cardinality(DOMAIN orders),
   active_orders |-> Cardinality({i \in DOMAIN orders : IsActiveOrder(orders[i])}),
   completed_orders |-> Cardinality({i \in DOMAIN orders : IsCompleted(orders[i])}),
   total_tasks |-> Cardinality(DOMAIN tasks),
   completed_tasks |-> Cardinality({i \in DOMAIN tasks : IsCompleted(tasks[i])}),
   total_containers |-> Cardinality(DOMAIN containers),
   in_transit |-> Cardinality({i \in DOMAIN containers : InTransit(containers[i])}),
   no_photo |-> Cardinality({i \in DOMAIN orders :
                   ~orders[i].has_loading_photo /\ InActiveList(orders[i])}),
   no_local |-> Cardinality({i \in DOMAIN orders :
                   ~orders[i].has_local_charges /\ InActiveList(orders[i])}),
   no_tex |-> Cardinality({i \in DOMAIN orders :
                 ~orders[i].has_tex /\ InActiveList(orders[i])})]

\* bot.py:622-712: /report.  A failing query or a due_date that does not
\* parse ends in the generic failure reply.
ReportCmd(fail) ==
  /\ HandlerMayStart
  /\ out_report' =
       IF fail \/ OverdueRaises THEN [NoReport EXCEPT !.reply = "error"]
       ELSE [ok |-> TRUE, reply |-> "report", fig |-> ReportFigures,
             overdue_tasks |-> Cardinality(IsOverdueTask(clock)),
             delivered |-> Cardinality({i \in DOMAIN containers : Delivered(containers[i])}),
             urgent_orders |-> ReportUrgentOrders(clock)]
  /\ orders' = Select(orders)
  /\ tasks' = Select(tasks)
  /\ containers' = Select(containers)
  /\ UNCHANGED <<clock, last_check_time, subscribers, reply, cmds, syncs,
                 out_pdf, out_list>>
  /\ UNCHANGED dispVars
  /\ UNCHANGED auxVars

\* What generate_pdf_report leaves behind.  gen = "ok": doc.build wrote the
\* file and the path is returned; "query_fail": a query raised before the
\* document existed; "build_fail": doc.build raised, and whether it had
\* already created the file is not the program's choice (partial).  On both
\* failures the except at report_generator.py:230-232 returns None.  The
\* file is named by the instant of the call (report_generator.py:21-24);
\* before is the set of files on disk.
PdfFileAfter(gen, partial, before, name) ==
  IF gen = "ok" \/ (gen = "build_fail" /\ partial) THEN before \cup {name} ELSE before

\* report_generator.py:17-232: the figures of the document and the file it
\* leaves; None when a query or doc.build raises.
GeneratePdfReport(gen, partial) ==
  /\ HandlerMayStart
  /\ out_pdf' = IF gen = "ok" THEN [ok |-> TRUE, fig |-> PdfFigures] ELSE NoPdf
  /\ report_files' = PdfFileAfter(gen, partial, report_files, clock)
  /\ orders' = Select(orders)
  /\ tasks' = Select(tasks)
  /\ containers' = Select(containers)
  /\ UNCHANGED <<clock, last_check_time, subscribers, reply, cmds, syncs,
                 out_report, out_list>>
  /\ UNCHANGED dispVars
  /\ UNCHANGED <<bcast, replies, pdf_path, util_in, util_out, hpc>>

\* bot.py:714-718: /report_pdf up to its first await, the reply that the
\* document is being generated.
ReportPdfCmd ==
  /\ HandlerMayStart
  /\ replies' = <<"generating">>
  /\ hpc' = "pdf_generate"
  /\ UNCHANGED <<clock, last_check_time, subscribers, orders, reply, cmds, syncs>>
  /\ UNCHANGED dispVars
  /\ UNCHANGED reportVars
  /\ UNCHANGED <<bcast, report_files, pdf_path, util_in, util_out>>

\* bot.py:717-736: the await of the first reply returns.  When that reply
\* raised (reply_ok false) control is in the except at 734 before the
\* generator was called: the handler sends the error reply and ends.
\* Otherwise the document is generated (a blocking call); then either
\* reply_document is awaited with the file open, or the reply that the
\* generation failed (732) is awaited.
ReportPdfGenerate(reply_ok, gen, partial) ==
  LET files == PdfFileAfter(gen, partial, report_files, clock)
  IN /\ hpc = "pdf_generate"
     /\ LoopFree
     /\ IF ~reply_ok
        THEN /\ hpc' = "none"
             /\ replies' = Append(replies, "pdf_error")
             /\ UNCHANGED <<out_pdf, report_files, pdf_path, orders, tasks,
                            containers>>
        ELSE /\ out_pdf' = IF gen = "ok" THEN [ok |-> TRUE, fig |-> PdfFigures]
                           ELSE NoPdf
             /\ report_files' = files
             /\ IF gen = "ok" /\ clock \in files
                THEN /\ hpc' = "pdf_send"
                     /\ pdf_path' = clock
                     /\ UNCHANGED replies
                ELSE /\ hpc' = "pdf_failed"
                     /\ pdf_path' = -1
                     /\ replies' = Append(replies, "pdf_failed")
             /\ orders' = Select(orders)
             /\ tasks' = Select(tasks)
             /\ containers' = Select(containers)
     /\ UNCHANGED <<clock, last_check_time, subscribers, reply, cmds, syncs,
                    out_report, out_list>>
     /\ UNCHANGED dispVars
     /\ UNCHANGED <<bcast, util_in, util_out>>

\* bot.py:732-736: the await of the reply that the generation failed
\* returns: the handler ends, or, when that reply raised, the except at 734
\* sends the error reply and the handler ends.
ReportPdfFailed(ok) ==
  /\ hpc = "pdf_failed"
  /\ LoopFree
  /\ replies' = IF ok THEN replies ELSE Append(replies, "pdf_error")
  /\ hpc' = "none"
  /\ UNCHANGED <<clock, last_check_time, subscribers, orders, reply, cmds, syncs>>
  /\ UNCHANGED dispVars
  /\ UNCHANGED reportVars
  /\ UNCHANGED <<bcast, report_files, pdf_path, util_in, util_out>>

\* bot.py:724-736: reply_document returns and os.remove(pdf_path) (730)
\* deletes the file of this run, or it raises and control goes to the except
\* at 734, past the os.remove.
ReportPdfSent(send_ok) ==
  /\ hpc = "pdf_send"
  /\ LoopFree
  /\ IF send_ok
     THEN /\ report_files' = report_files \ {pdf_path}
          /\ replies' = Append(replies, "document")
     ELSE /\ UNCHANGED report_files
          /\ replies' = Append(replies, "pdf_error")
  /\ pdf_path' = -1
  /\ hpc' = "none"
  /\ UNCHANGED <<clock, last_check_time, subscribers, orders, reply, cmds, syncs>>
  /\ UNCHANGED dispVars
  /\ UNCHANGED reportVars
  /\ UNCHANGED <<bcast, util_in, util_out>>

\* list.sort(key=lambda x: x[1]): a stable sort by days_left.
RECURSIVE InsertByDays(_, _)
InsertByDays(row, sorted) ==
  IF sorted = <<>> THEN <<row>>
  ELSE IF row.days < Head(sorted).days THEN <<row>> \o sorted
  ELSE <<Head(sorted)>> \o InsertByDays(row, Tail(sorted))

RECURSIVE SortByDays(_)
SortByDays(rows) ==
  IF rows = <<>> THEN <<>>
  ELSE InsertByDays(rows[Len(rows)], SortByDays(SubSeq(rows, 1, Len(rows) - 1)))

Take(seq, n) == SubSeq(seq, 1, IF Len(seq) < n THEN Len(seq) ELSE n)

\* bot.py:838-847: the rows of /urgent, from the result of the same query
\* as the dispatcher's query 4.
RECURSIVE UrgentRows(_, _)
UrgentRows(ids, now_) ==
  IF ids = <<>> THEN <<>>
  ELSE LET o == Head(ids)
           eta == orders[o].eta
           rest == UrgentRows(Tail(ids), now_)
       IN IF Truthy(eta) /\ ParseOk(eta) /\ UrgentRange(DaysLeft(eta, now_))
          THEN <<[order |-> o, days |-> DaysLeft(eta, now_), label |-> "urgent"]>>
               \o rest
          ELSE rest

UrgentListLimit == 10

\* bot.py:825-885: /urgent
UrgentCmd(fail) ==
  /\ HandlerMayStart
  /\ \E ids \in UrgentQuery :
       out_list' =
         IF fail THEN [cmd |-> "urgent", ok |-> FALSE, rows |-> <<>>]
         ELSE [cmd |-> "urgent", ok |-> TRUE,
               rows |-> Take(SortByDays(UrgentRows(ids, clock)), UrgentListLimit)]
  /\ orders' = Select(orders)
  /\ UNCHANGED <<clock, last_check_time, subscribers, reply, cmds, syncs,
                 tasks, containers, out_report, out_pdf>>
  /\ UNCHANGED dispVars
  /\ UNCHANGED auxVars

\* bot.py:225-240: the ETA label of one listed order.
SoonBound_strict(d) == d < 3
SoonBound(d) == d <= 3

EtaLabel(eta, now_) ==
  IF ~Truthy(eta) THEN "unset"
  ELSE IF ~ParseOk(eta) THEN "raw"
  ELSE LET d == DaysLeft(eta, now_)
       IN IF d < 0 THEN "overdue"
          ELSE IF d = 0 THEN "today"
          ELSE IF SoonBound(d) THEN "soon"
          ELSE "date"

RECURSIVE OrderRows(_, _)
OrderRows(ids, now_) ==
  IF ids = <<>> THEN <<>>
  ELSE LET o == Head(ids)
           eta == orders[o].eta
       IN <<[order |-> o,
             days |-> IF Truthy(eta) /\ ParseOk(eta) THEN DaysLeft(eta, now_) ELSE 0,
             label |-> EtaLabel(eta, now_)]>> \o OrderRows(Tail(ids), now_)

OrdersListLimit == 15

\* .order('creation_date', desc=True) (bot.py:207 and 386): the newest row
\* first; rows with the same creation_date in an order the request does not
\* fix.
NewestFirst(ids) ==
  \A i, j \in 1..Len(ids) :
    i < j => orders[ids[i]].creation_date >= orders[ids[j]].creation_date

\* bot.py:204-208: .in_('status', active_statuses), newest first.
ActiveQuery ==
  {ids \in RowOrders({o \in DOMAIN orders : orders[o].status \in ActiveStatuses}) :
     NewestFirst(ids)}

\* bot.py:198-261: /orders
OrdersCmd(fail) ==
  /\ HandlerMayStart
  /\ \E ids \in ActiveQuery :
       out_list' =
         IF fail THEN [cmd |-> "orders", ok |-> FALSE, rows |-> <<>>]
         ELSE [cmd |-> "orders", ok |-> TRUE,
               rows |-> OrderRows(Take(ids, OrdersListLimit), clock)]
  /\ orders' = Select(orders)
  /\ UNCHANGED <<clock, last_check_time, subscribers, reply, cmds, syncs,
                 tasks, containers, out_report, out_pdf>>
  /\ UNCHANGED dispVars
  /\ UNCHANGED auxVars

\* bot.py:403-410: the ETA text of one row of /status.
StatusEtaLabel(eta) ==
  IF ~Truthy(eta) THEN "unset" ELSE IF ~ParseOk(eta) THEN "raw" ELSE "date"

RECURSIVE StatusRows(_)
StatusRows(ids) ==
  IF ids = <<>> THEN <<>>
  ELSE <<[order |-> Head(ids), days |-> 0,
          label |-> StatusEtaLabel(orders[Head(ids)].eta)]>>
       \o StatusRows(Tail(ids))

StatusListLimit == 10

\* bot.py:383-387: .eq('status', status_filter), newest first.
StatusQuery(st) ==
  {ids \in RowOrders({o \in DOMAIN orders : orders[o].status = st}) :
     NewestFirst(ids)}

\* bot.py:369-422: /status with a status argument.
StatusFilterCmd(st, fail) ==
  /\ HandlerMayStart
  /\ \E ids \in StatusQuery(st) :
       out_list' =
         IF fail THEN [cmd |-> "status", ok |-> FALSE, rows |-> <<>>]
         ELSE [cmd |-> "status", ok |-> TRUE,
               rows |-> StatusRows(Take(ids, StatusListLimit))]
  /\ orders' = Select(orders)
  /\ UNCHANGED <<clock, last_check_time, subscribers, reply, cmds, syncs,
                 tasks, containers, out_report, out_pdf>>
  /\ UNCHANGED dispVars
  /\ UNCHANGED auxVars

\* bot.py:427-429: end_date is today 23:59:59.999999 with tzinfo replaced by
\* the pytz zone object, whose offset is the zone's first one (local mean
\* time, +03:53:32): in whole UTC hours the last instant that is <= end_date.
LmtOffsetHoursUp == 4

\* bot.py:431-435: .lte('due_date', end_date).  NULL never compares; the
\* empty string is below every other string, so a row that holds it is
\* returned; how another string that is no timestamp compares is the
\* backend's matter (bad_in).
\* .order('due_date') (bot.py:434): the empty strings first, then the
\* earliest due date first; rows with the same due date, and a row whose
\* due_date is some other string, in an order the request does not fix.
EarliestDueFirst(ids) ==
  \A i, j \in 1..Len(ids) :
    /\ (/\ i < j
        /\ tasks[ids[i]].due_date.kind = "iso"
        /\ tasks[ids[j]].due_date.kind = "iso") =>
         tasks[ids[i]].due_date.t <= tasks[ids[j]].due_date.t
    /\ (i < j /\ tasks[ids[j]].due_date.kind = "empty") =>
         tasks[ids[i]].due_date.kind = "empty"

TodayQuery(now_, bad_in) ==
  {ids \in RowOrders({i \in DOMAIN tasks :
                        \/ tasks[i].due_date.kind = "empty"
                        \/ tasks[i].due_date.kind = "bad" /\ bad_in
                        \/ /\ tasks[i].due_date.kind = "iso"
                           /\ tasks[i].due_date.t
                                <= (DateOf(AsTimezone(now_)) + 1) * HoursPerDay
                                     - LmtOffsetHoursUp}) :
     EarliestDueFirst(ids)}

\* bot.py:447-459: overdue when the due day is before today; a due date that
\* is empty or does not parse goes to today's list.
TaskIsOverdue(due, now_) ==
  /\ Truthy(due) /\ ParseOk(due)
  /\ DateOf(AsTimezone(due.t)) < DateOf(AsTimezone(now_))

RECURSIVE TodayRows(_, _, _)
TodayRows(ids, now_, wanted) ==
  IF ids = <<>> THEN <<>>
  ELSE LET i == Head(ids)
           lab == IF TaskIsOverdue(tasks[i].due_date, now_) THEN "overdue"
                  ELSE "today"
           rest == TodayRows(Tail(ids), now_, wanted)
       IN IF lab = wanted
          THEN <<[order |-> i, days |-> 0, label |-> lab]>> \o rest
          ELSE rest

TodayOverdueLimit == 5
TodayListLimit == 10

\* bot.py:424-495: /today
TodayTasksCmd(fail, bad_in) ==
  /\ HandlerMayStart
  /\ \E ids \in TodayQuery(clock, bad_in) :
       out_list' =
         IF fail THEN [cmd |-> "today", ok |-> FALSE, rows |-> <<>>]
         ELSE [cmd |-> "today", ok |-> TRUE,
               rows |-> Take(TodayRows(ids, clock, "overdue"), TodayOverdueLimit)
                        \o Take(TodayRows(ids, clock, "today"), TodayListLimit)]
  /\ tasks' = Select(tasks)
  /\ UNCHANGED <<clock, last_check_time, subscribers, orders, reply, cmds, syncs,
                 containers, out_report, out_pdf>>
  /\ UNCHANGED dispVars
  /\ UNCHANGED auxVars

\* ------------------------------------------------- more listing commands
\* The commands below read columns the others do not: a container's
\* order_id (0: NULL, the container belongs to no order) and its driver's
\* names (a text column: NULL or a string s), an order's container_count, a
\* task's order_id.  An order's order_number is its id.  In a request that
\* embeds cloud_orders(...), the embedded row of a container without an
\* order is None.
OrderTasksLimit == 3
ContainersShownLimit == 3
DriversListLimit == 15
\* bot.py:601: a driver's line names at most this many of its orders.
DriverOrdersLimit == 2
CompletedDays == 30
CompletedListLimit == 10
NoPhotosListLimit == 10

\* bot.py:263-367: /order <number> (num = 0: no argument, the handler
\* replies with the usage and sends no request).  fail is the request that
\* raises (0: none): the order by its number, then its containers, then its
\* tasks by due date; an unknown number ends the handler after the first.
OrderDetailCmd(num, fail) ==
  /\ HandlerMayStart
  /\ IF num = 0
     THEN /\ out_list' = [cmd |-> "order_usage", ok |-> TRUE, rows |-> <<>>]
          /\ UNCHANGED <<orders, containers, tasks>>
     ELSE \E found \in RowOrders({o \in DOMAIN orders : o = num}),
             cs \in RowOrders({i \in DOMAIN containers :
                                 containers[i].order_id = num}),
             ts \in {ids \in RowOrders({i \in DOMAIN tasks :
                                          tasks[i].order_id = num}) :
                       EarliestDueFirst(ids)} :
          /\ out_list' =
               IF fail # 0 /\ (fail = 1 \/ found # <<>>)
               THEN [cmd |-> "order", ok |-> FALSE, rows |-> <<>>]
               ELSE IF found = <<>>
               THEN [cmd |-> "order_not_found", ok |-> TRUE, rows |-> <<>>]
               ELSE [cmd |-> "order", ok |-> TRUE,
                     rows |-> <<[order |-> found[1], days |-> 0,
                                 label |-> orders[found[1]].status]>>,
                     containers |-> cs,
                     tasks_total |-> Len(ts),
                     tasks |-> Take(ts, OrderTasksLimit)]
          /\ orders' = Select(orders)
          /\ containers' = IF fail = 1 \/ found = <<>> THEN containers
                           ELSE Select(containers)
          /\ tasks' = IF fail \in {1, 2} \/ found = <<>> THEN tasks
                      ELSE Select(tasks)
  /\ UNCHANGED <<clock, last_check_time, subscribers, reply, cmds, syncs,
                 out_report, out_pdf>>
  /\ UNCHANGED dispVars
  /\ UNCHANGED auxVars

\* bot.py:497-549: /containers, the containers that have not arrived,
\* grouped by the status of their order in the order the statuses first
\* appear, ContainersShownLimit of each group shown.  A container without
\* an order makes order_info None, and order_info.get raises (bot.py:517).
ContainersCmd(fail) ==
  /\ HandlerMayStart
  /\ \E ids \in RowOrders({i \in DOMAIN containers : InTransit(containers[i])}) :
       LET Status(i) == orders[containers[i].order_id].status
           first(st) == CHOOSE j \in 1..Len(ids) :
                          /\ Status(ids[j]) = st
                          /\ \A x \in 1..(j - 1) : Status(ids[x]) # st
           statuses == {Status(ids[j]) : j \in 1..Len(ids)}
           Members(st) == LET Has(i) == Status(i) = st IN SelectSeq(ids, Has)
       IN out_list' =
            IF fail \/ \E j \in 1..Len(ids) : containers[ids[j]].order_id = 0
            THEN [cmd |-> "containers", ok |-> FALSE, rows |-> <<>>]
            ELSE [cmd |-> "containers", ok |-> TRUE,
                  rows |-> [r \in 1..Cardinality(statuses) |->
                              LET st == CHOOSE x \in statuses :
                                          Cardinality({y \in statuses :
                                                         first(y) < first(x)}) = r - 1
                              IN [status |-> st,
                                  count |-> Len(Members(st)),
                                  shown |-> Take(Members(st), ContainersShownLimit)]]]
  /\ containers' = Select(containers)
  /\ UNCHANGED <<clock, last_check_time, subscribers, orders, reply, cmds, syncs,
                 tasks, out_report, out_pdf>>
  /\ UNCHANGED dispVars
  /\ UNCHANGED auxVars

\* bot.py:554-618: /drivers, the containers whose driver_first_name is not
\* NULL, grouped under the string first + "_" + last (a NULL last name
\* reads "None") in the order the keys first appear, so two pairs of names
\* that join to the same string are one driver, shown with the names of
\* the first of its rows; a row whose key is "_" is skipped; the first
\* DriversListLimit drivers are listed.  The order numbers of a driver are
\* a set of strings, and the line names the first DriverOrdersLimit of its
\* iteration order, which the string hashing of the run decides: any
\* DriverOrdersLimit of them.
DriversCmd(fail) ==
  /\ HandlerMayStart
  /\ LET Last(i) == IF containers[i].driver_last_name.kind = "null" THEN "None"
                    ELSE containers[i].driver_last_name.s
         Key(i) == containers[i].driver_first_name.s \o "_" \o Last(i)
         selected == {i \in DOMAIN containers :
                        containers[i].driver_first_name.kind # "null"}
         keys == {Key(i) : i \in {x \in selected : Key(x) # "_"}}
         OrdersOf(key) == {containers[i].order_id :
                             i \in {x \in selected : Key(x) = key}} \ {0}
         Named(key) == {S \in SUBSET OrdersOf(key) :
                          Cardinality(S) =
                            IF Cardinality(OrdersOf(key)) < DriverOrdersLimit
                            THEN Cardinality(OrdersOf(key))
                            ELSE DriverOrdersLimit}
         listed == IF Cardinality(keys) < DriversListLimit THEN Cardinality(keys)
                   ELSE DriversListLimit
     IN \E named \in [keys -> UNION {Named(key) : key \in keys}],
           ids \in RowOrders(selected) :
          LET first(key) == CHOOSE j \in 1..Len(ids) :
                              /\ Key(ids[j]) = key
                              /\ \A x \in 1..(j - 1) : Key(ids[x]) # key
          IN /\ \A key \in keys : named[key] \in Named(key)
             /\ out_list' =
                  IF fail THEN [cmd |-> "drivers", ok |-> FALSE, rows |-> <<>>]
                  ELSE [cmd |-> "drivers", ok |-> TRUE,
                        rows |-> [r \in 1..listed |->
                                    LET key == CHOOSE x \in keys :
                                                 Cardinality({y \in keys :
                                                                first(y) < first(x)})
                                                   = r - 1
                                        row == ids[first(key)]
                                    IN [driver |->
                                          <<containers[row].driver_first_name.s,
                                            Last(row)>>,
                                        orders |-> named[key]]]]
  /\ containers' = Select(containers)
  /\ UNCHANGED <<clock, last_check_time, subscribers, orders, reply, cmds, syncs,
                 tasks, out_report, out_pdf>>
  /\ UNCHANGED dispVars
  /\ UNCHANGED auxVars

\* bot.py:738-781: /completed_30, the Completed orders created in the last
\* CompletedDays days, newest first; the first CompletedListLimit are
\* listed, and the total of containers counts the listed ones only.
Completed30Cmd(fail) ==
  /\ HandlerMayStart
  /\ \E ids \in {x \in RowOrders({o \in DOMAIN orders :
                                    /\ orders[o].status = "Completed"
                                    /\ orders[o].creation_date
                                         >= clock - CompletedDays * HoursPerDay}) :
                   NewestFirst(x)} :
       LET shown == Take(ids, CompletedListLimit)
           RECURSIVE Total(_)
           Total(n) == IF n = 0 THEN 0
                       ELSE Total(n - 1) + orders[shown[n]].container_count
       IN out_list' =
            IF fail THEN [cmd |-> "completed_30", ok |-> FALSE, rows |-> <<>>]
            ELSE [cmd |-> "completed_30", ok |-> TRUE,
                  rows |-> [j \in 1..Len(shown) |->
                              [order |-> shown[j], days |-> 0, label |-> "completed"]],
                  total_orders |-> Len(ids),
                  total_containers |-> Total(Len(shown))]
  /\ orders' = Select(orders)
  /\ UNCHANGED <<clock, last_check_time, subscribers, reply, cmds, syncs,
                 tasks, containers, out_report, out_pdf>>
  /\ UNCHANGED dispVars
  /\ UNCHANGED auxVars

\* bot.py:784-823: /no_photos, the orders with has_loading_photo false that
\* are not Completed, newest first, the first NoPhotosListLimit listed.
NoPhotosCmd(fail) ==
  /\ HandlerMayStart
  /\ \E ids \in {x \in RowOrders({o \in DOMAIN orders :
                                    /\ ~orders[o].has_loading_photo
                                    /\ orders[o].status # "Completed"}) :
                   NewestFirst(x)} :
       LET shown == Take(ids, NoPhotosListLimit)
       IN out_list' =
            IF fail THEN [cmd |-> "no_photos", ok |-> FALSE, rows |-> <<>>]
            ELSE [cmd |-> "no_photos", ok |-> TRUE,
                  rows |-> [j \in 1..Len(shown) |->
                              [order |-> shown[j], days |-> 0,
                               label |-> orders[shown[j]].status]],
                  total_orders |-> Len(ids)]
  /\ orders' = Select(orders)
  /\ UNCHANGED <<clock, last_check_time, subscribers, reply, cmds, syncs,
                 tasks, containers, out_report, out_pdf>>
  /\ UNCHANGED dispVars
  /\ UNCHANGED auxVars

\* bot.py:997-1027: /status_db sends two count requests to cloud_orders and
\* replies with the number of orders; fail is the request that raises
\* (0: none).
StatusDbCmd(fail) ==
  /\ HandlerMayStart
  /\ out_list' = IF fail # 0 THEN [cmd |-> "status_db", ok |-> FALSE, rows |-> <<>>]
                 ELSE [cmd |-> "status_db", ok |-> TRUE, rows |-> <<>>,
                       total_orders |-> Cardinality(DOMAIN orders)]
  /\ orders' = IF fail = 1 THEN Select(orders) ELSE Select(Select(orders))
  /\ UNCHANGED <<clock, last_check_time, subscribers, reply, cmds, syncs,
                 tasks, containers, out_report, out_pdf>>
  /\ UNCHANGED dispVars
  /\ UNCHANGED auxVars

\* ----------------------------------------------------------------- utils
\* Glyphs are written as their code points.
DefaultGlyph == "U+1F4E6"

\* dict.get(key, default)
DictGet(d, key, default) == IF key \in DOMAIN d THEN d[key] ELSE default

\* utils.py:56-64
emojis_short == [x \in {"New"} |-> "U+1F195"]
emojis ==
  [x \in OrderStatuses |->
     CASE x = "New" -> "U+1F195"
       [] x = "In Progress CHN" -> "U+1F1E8 U+1F1F3"
       [] x = "In Transit CHN-IR" -> "U+1F6A2"
       [] x = "In Progress IR" -> "U+1F1EE U+1F1F7"
       [] x = "In Transit IR-TKM" -> "U+1F69B"
       [] x = "Completed" -> "U+2705"
       [] x = "Cancelled" -> "U+274C"]

\* bot.py:65-73
status_emojis ==
  [x \in OrderStatuses |->
     CASE x = "New" -> "U+1F195"
       [] x = "In Progress CHN" -> "U+1F1E8 U+1F1F3"
       [] x = "In Transit CHN-IR" -> "U+1F6A2"
       [] x = "In Progress IR" -> "U+1F1EE U+1F1F7"
       [] x = "In Transit IR-TKM" -> "U+1F69B"
       [] x = "Completed" -> "U+2705"
       [] x = "Cancelled" -> "U+274C"]

\* utils.py:54-65
status_to_emoji(status) == DictGet(emojis, status, DefaultGlyph)

\* utils.py:38-52: None for a falsy argument and when parsing raises.
calculate_days_until(date_str, now_) ==
  IF ~Truthy(date_str) THEN [calc |-> "none", days |-> 0]
  ELSE IF ~ParseOk(date_str) THEN [calc |-> "none", days |-> 0]
  ELSE [calc |-> "int", days |-> DaysLeft(date_str, now_)]

\* utils.py:21: the length of the prefix format_date falls back to.
DatePrefixLen == 10

\* utils.py:16-17: date_str = date_str.replace('Z', '+00:00') rebinds the
\* argument before it is parsed, so the except at 21-22 slices the string
\* with every Z already replaced.
RECURSIVE ReplaceZ(_)
ReplaceZ(raw) ==
  IF raw = <<>> THEN <<>>
  ELSE (IF Head(raw) = "Z" THEN <<"+", "0", "0", ":", "0", "0">> ELSE <<Head(raw)>>)
       \o ReplaceZ(Tail(raw))

\* utils.py:10-22.  raw is the text of an argument that does not parse, one
\* element per character; a date is rendered as its day in the fixed zone.
format_date(date_str, raw) ==
  IF ~Truthy(date_str) THEN [form |-> "not_set", day |-> 0, chars |-> <<>>]
  ELSE IF ParseOk(date_str)
  THEN [form |-> "date", day |-> DateOf(AsTimezone(date_str.t)), chars |-> <<>>]
  ELSE IF raw # <<>> THEN [form |-> "raw", day |-> 0, chars |-> Take(ReplaceZ(raw), DatePrefixLen)]
  ELSE [form |-> "not_set", day |-> 0, chars |-> <<>>]

\* A call of format_date on the timestamp at hand.
FormatDate ==
  /\ util_out' = [util_out EXCEPT !.text = format_date(util_in.ts, util_in.raw)]
  /\ UNCHANGED <<clock, last_check_time, subscribers, orders, reply, cmds, syncs>>
  /\ UNCHANGED dispVars
  /\ UNCHANGED reportVars
  /\ UNCHANGED <<bcast, replies, report_files, pdf_path, util_in, hpc>>

\* A call of status_to_emoji on the status at hand.
StatusToEmoji ==
  /\ util_out' = [util_out EXCEPT !.glyph = status_to_emoji(util_in.status)]
  /\ UNCHANGED <<clock, last_check_time, subscribers, orders, reply, cmds, syncs>>
  /\ UNCHANGED dispVars
  /\ UNCHANGED reportVars
  /\ UNCHANGED <<bcast, replies, report_files, pdf_path, util_in, hpc>>

\* bot.py:1138: the dispatcher's lookup, self.status_emojis.get(status, ...).
StatusEmojisGet ==
  /\ util_out' = [util_out EXCEPT
                    !.table_glyph = DictGet(status_emojis, util_in.status, DefaultGlyph)]
  /\ UNCHANGED <<clock, last_check_time, subscribers, orders, reply, cmds, syncs>>
  /\ UNCHANGED dispVars
  /\ UNCHANGED reportVars
  /\ UNCHANGED <<bcast, replies, report_files, pdf_path, util_in, hpc>>

\* A call of calculate_days_until on the timestamp at hand.
CalculateDaysUntil ==
  /\ util_out' = [util_out EXCEPT
                    !.calc = calculate_days_until(util_in.ts, clock).calc,
                    !.days = calculate_days_until(util_in.ts, clock).days]
  /\ UNCHANGED <<clock, last_check_time, subscribers, orders, reply, cmds, syncs>>
  /\ UNCHANGED dispVars
  /\ UNCHANGED reportVars
  /\ UNCHANGED <<bcast, replies, report_files, pdf_path, util_in, hpc>>

\* ------------------------------------------------------------------ Spec
\* A container that arrived and was synchronised when the bot started.
ArrivedContainer == [arrival_turkmenistan_date |-> IsoTs(0),
                     client_receiving_date |-> NullTs, last_sync |-> InitClock]

SpecStatuses == {"New", "Completed"}
SpecEtas == {BadTs, IsoTs(HoursPerDay + 20), IsoTs(MaxEtaDay * HoursPerDay + 20)}

Init ==
  /\ clock = InitClock
  /\ last_check_time = InitClock
  /\ subscribers \in {SetOf(ids) : ids \in RowOrders(ADMIN_CHAT_IDS)}
  /\ orders \in [OrderIds -> [status : {"New"}, eta : SpecEtas, last_sync : {0},
                              creation_date : {0}, has_loading_photo : {FALSE},
                              has_local_charges : {FALSE}, has_tex : {FALSE}]]
  /\ pc = "idle"
  /\ now = 0
  /\ notifs = <<>>
  /\ k = 0 /\ it_used = 0 /\ it_pos = 0
  /\ attempts = NoAttempts
  /\ snap = NoSnap
  /\ outcome = "none"
  /\ q_since = 0
  /\ q_fail = 0
  /\ running = 0
  /\ q_sinces = <<>>
  /\ hist = NoHist
  /\ changed_orders = <<>>
  /\ hpc = "none"
  /\ reply = "none"
  /\ cmds = 0
  /\ syncs = 0
  /\ tasks = <<>>
  /\ containers = <<ArrivedContainer>>
  /\ out_report = NoReport
  /\ out_pdf = NoPdf
  /\ out_list = NoList
  /\ bcast = NoBroadcast
  /\ replies = <<>>
  /\ report_files = {}
  /\ pdf_path = -1
  /\ util_in = NoUtilIn
  /\ util_out = NoUtilOut

Next ==
  \/ \E fail \in BOOLEAN : CycleStart(fail)
  \/ \E fail \in BOOLEAN : QueryContainers(fail)
  \/ \E fail \in BOOLEAN : QueryTasks(fail)
  \/ \E fail \in BOOLEAN : QueryUrgent(fail)
  \/ \E ok \in BOOLEAN : SendReturns(ok)
  \/ SleepReturns
  \/ CycleExit
  \/ \E c \in ChatIds : StartCmd(c)
  \/ \E c \in ChatIds : SubscribeCmd(c)
  \/ \E c \in ChatIds : UnsubscribeCmd(c)
  \/ Tick
  \/ \E o \in OrderIds, s \in SpecStatuses : BackendSync(o, s)

Spec == Init /\ [][Next]_vars

\* ----------------------------------------------------------- SpecHistory
\* The dispatcher and the registry as in Spec, with the history kept.
NextHistory ==
  \/ \E fail \in BOOLEAN : CycleStart(fail)
  \/ \E fail \in BOOLEAN : QueryContainers(fail)
  \/ \E fail \in BOOLEAN : QueryTasks(fail)
  \/ \E fail \in BOOLEAN : QueryUrgentH(fail)
  \/ \E ok \in BOOLEAN : SendReturnsH(ok)
  \/ SleepReturnsH
  \/ CycleExit
  \/ \E c \in ChatIds : StartCmd(c)
  \/ \E c \in ChatIds : SubscribeCmd(c)
  \/ \E c \in ChatIds : UnsubscribeCmd(c)
  \/ Tick
  \/ \E o \in OrderIds, s \in SpecStatuses : BackendSync(o, s)
  \/ \E o \in OrderIds, s \in SpecStatuses, stamp \in SyncStamps :
       BackendSyncDelayed(o, s, stamp)

SpecHistory == Init /\ [][NextHistory]_vars

\* ------------------------------------------------------------ SpecReport
\* The report commands over every small snapshot of the backend.
ReportStatuses == {"New", "Completed", "Cancelled"}
ReportClocks == {InitClock + d * HoursPerDay : d \in 0..2}

FlagRows == [status : ReportStatuses, eta : {NullTs}, last_sync : {0},
             creation_date : {0},
             has_loading_photo : BOOLEAN, has_local_charges : BOOLEAN,
             has_tex : BOOLEAN]
EtaRows == [status : ReportStatuses, eta : EtaChoices, last_sync : {0},
            creation_date : {0},
            has_loading_photo : {TRUE}, has_local_charges : {TRUE},
            has_tex : {TRUE}]
\* Order rows created at different times, for the listings that sort by
\* creation_date.
ListRows == [status : ReportStatuses, eta : EtaChoices, last_sync : {0},
             creation_date : {0, HoursPerDay},
             has_loading_photo : {TRUE}, has_local_charges : {TRUE},
             has_tex : {TRUE}]
TaskRows == [status : {"ToDo", "Completed"}, last_sync : {0},
             due_date : {NullTs, EmptyTs, BadTs, IsoTs(0),
                         IsoTs(MaxEtaDay * HoursPerDay)}]
ContainerRows == [arrival_turkmenistan_date : {NullTs, IsoTs(0)},
                  client_receiving_date : {NullTs, IsoTs(0)}, last_sync : {0}]

Tables(n, rows) == UNION {[1..m -> rows] : m \in 0..n}

\* Nothing has run yet: the state of the handlers before the first command.
ReportQuiet ==
  /\ last_check_time = InitClock
  /\ subscribers \in {SetOf(ids) : ids \in RowOrders(ADMIN_CHAT_IDS)}
  /\ pc = "idle"
  /\ now = 0
  /\ notifs = <<>>
  /\ k = 0 /\ it_used = 0 /\ it_pos = 0
  /\ attempts = NoAttempts
  /\ snap = NoSnap
  /\ outcome = "none"
  /\ q_since = 0
  /\ q_fail = 0
  /\ running = 0
  /\ q_sinces = <<>>
  /\ hist = NoHist
  /\ changed_orders = <<>>
  /\ hpc = "none"
  /\ reply = "none"
  /\ cmds = 0
  /\ syncs = 0
  /\ out_report = NoReport
  /\ out_pdf = NoPdf
  /\ out_list = NoList
  /\ bcast = NoBroadcast
  /\ replies = <<>>
  /\ report_files = {}
  /\ pdf_path = -1
  /\ util_in = NoUtilIn
  /\ util_out = NoUtilOut

InitReport ==
  /\ ReportQuiet
  /\ \/ /\ clock = InitClock
        /\ orders \in Tables(NumReportOrders, FlagRows)
        /\ tasks = <<>>
        /\ containers = <<>>
     \/ /\ clock \in ReportClocks
        /\ orders \in Tables(NumReportOrders, EtaRows)
        /\ tasks = <<>>
        /\ containers = <<>>
     \/ /\ clock = InitClock
        /\ orders = <<>>
        /\ tasks \in Tables(NumTasks, TaskRows)
        /\ containers \in Tables(NumContainers, ContainerRows)

NextReport ==
  \/ \E fail \in BOOLEAN : ReportCmd(fail)
  \/ \E gen \in {"ok", "query_fail", "build_fail"}, partial \in BOOLEAN :
       GeneratePdfReport(gen, partial)
  \/ \E fail \in BOOLEAN : UrgentCmd(fail)
  \/ \E fail \in BOOLEAN : OrdersCmd(fail)

SpecReport == InitReport /\ [][NextReport]_vars

\* ------------------------------------------------------------- SpecLists
\* The commands that read timestamps row by row, over tables whose
\* timestamps may be unparseable, at several clock readings.
InitLists ==
  /\ ReportQuiet
  /\ \/ /\ clock \in ReportClocks
        /\ orders \in Tables(NumReportOrders, ListRows)
        /\ tasks = <<>>
        /\ containers = <<>>
     \/ /\ clock \in ReportClocks
        /\ orders = <<>>
        /\ tasks \in Tables(NumTasks, TaskRows)
        /\ containers \in Tables(NumContainers, ContainerRows)

NextLists ==
  \/ \E fail \in BOOLEAN : ReportCmd(fail)
  \/ \E fail \in BOOLEAN : UrgentCmd(fail)
  \/ \E fail \in BOOLEAN : OrdersCmd(fail)
  \/ \E st \in ReportStatuses, fail \in BOOLEAN : StatusFilterCmd(st, fail)
  \/ \E fail \in BOOLEAN, bad_in \in BOOLEAN : TodayTasksCmd(fail, bad_in)

SpecLists == InitLists /\ [][NextLists]_vars

\* ------------------------------------------------------------ SpecOrders
\* The order listings over every small table of dated orders.
InitOrders ==
  /\ ReportQuiet
  /\ clock \in ReportClocks
  /\ orders \in Tables(NumReportOrders, ListRows)
  /\ tasks = <<>>
  /\ containers = <<>>

NextOrders ==
  \/ \E fail \in BOOLEAN : OrdersCmd(fail)
  \/ \E fail \in BOOLEAN : UrgentCmd(fail)

SpecOrders == InitOrders /\ [][NextOrders]_vars

\* --------------------------------------------------------------- SpecPdf
\* The document report and the command that sends it.

NextPdf ==
  \/ Tick
  \/ ReportPdfCmd
  \/ \E gen \in {"ok", "query_fail", "build_fail"}, partial \in BOOLEAN :
       \E reply_ok \in BOOLEAN : ReportPdfGenerate(reply_ok, gen, partial)
  \/ \E ok \in BOOLEAN : ReportPdfFailed(ok)
  \/ \E send_ok \in BOOLEAN : ReportPdfSent(send_ok)

SpecPdf == InitReport /\ [][NextPdf]_vars

\* -------------------------------------------------------------- SpecUtil
\* The functions of utils.py over small sets of arguments.
StatusInputs == OrderStatuses \cup {"", "new", "Delivered", "N/A"}
UtilTimestamps ==
  {NullTs, EmptyTs} \cup {IsoTs(t) : t \in 0..(MaxUtilHour + HoursPerDay)}

\* The strings of up to MaxRawLen characters over a letter and the Z that
\* format_date replaces; none of them parses as a timestamp.
RawStrings == UNION {[1..n -> {"Z", "x"}] : n \in 1..MaxRawLen}

InitUtil ==
  /\ last_check_time = InitClock
  /\ subscribers \in {SetOf(ids) : ids \in RowOrders(ADMIN_CHAT_IDS)}
  /\ orders = <<>>
  /\ tasks = <<>>
  /\ containers = <<>>
  /\ pc = "idle"
  /\ now = 0
  /\ notifs = <<>>
  /\ k = 0 /\ it_used = 0 /\ it_pos = 0
  /\ attempts = NoAttempts
  /\ snap = NoSnap
  /\ outcome = "none"
  /\ q_since = 0
  /\ q_fail = 0
  /\ running = 0
  /\ q_sinces = <<>>
  /\ hist = NoHist
  /\ changed_orders = <<>>
  /\ hpc = "none"
  /\ reply = "none"
  /\ cmds = 0
  /\ syncs = 0
  /\ out_report = NoReport
  /\ out_pdf = NoPdf
  /\ out_list = NoList
  /\ bcast = NoBroadcast
  /\ replies = <<>>
  /\ report_files = {}
  /\ pdf_path = -1
  /\ util_out = NoUtilOut
  /\ \/ /\ clock = InitClock
        /\ util_in \in [status : StatusInputs, ts : {NullTs}, raw : {<<>>}]
     \/ /\ clock \in 0..MaxUtilHour
        /\ util_in \in [status : {""}, ts : UtilTimestamps, raw : {<<>>}]
     \/ /\ clock = InitClock
        /\ util_in \in [status : {""}, ts : {BadTs}, raw : RawStrings]

NextUtil ==
  \/ StatusToEmoji
  \/ StatusEmojisGet
  \/ CalculateDaysUntil
  \/ FormatDate

SpecUtil == InitUtil /\ [][NextUtil]_vars

\* ------------------------------------------------------------- SpecAdmin
\* The command handlers on the registry, with no dispatch cycle under way.
NextAdmin ==
  \/ \E c \in ChatIds : StartCmd(c)
  \/ \E c \in ChatIds : SubscribeCmd(c)
  \/ \E c \in ChatIds : UnsubscribeCmd(c)
  \/ \E c \in ChatIds : HelpCmd(c)
  \/ \E c \in ChatIds, has_args \in BOOLEAN : NotifyAllCmd(c, has_args)
  \/ \E ok \in BOOLEAN : NotifySendReturns(ok)
  \/ NotifySleepReturns
  \/ \E c \in ChatIds : CheckUpdatesCmd(c)
  \/ \E ok \in BOOLEAN : CheckUpdatesDone(ok)
  \/ \E c \in ChatIds : StatsCmd(c)

SpecAdmin == Init /\ [][NextAdmin]_vars

\* ---------------------------------------------------------- SpecHandlers
\* The dispatcher next to the registry, help and admin handlers, with every
\* order one day before its ETA, so that each cycle has reminders to send
\* and is suspended in its deliveries while the handlers run.
InitHandlers ==
  /\ Init
  /\ \A o \in OrderIds : orders[o].eta = IsoTs(HoursPerDay + 20)

NextHandlers ==
  \/ \E fail \in BOOLEAN : CycleStart(fail)
  \/ \E fail \in BOOLEAN : QueryContainers(fail)
  \/ \E fail \in BOOLEAN : QueryTasks(fail)
  \/ \E fail \in BOOLEAN : QueryUrgent(fail)
  \/ \E ok \in BOOLEAN : SendReturns(ok)
  \/ SleepReturns
  \/ CycleExit
  \/ Tick
  \/ NextAdmin

SpecHandlers == InitHandlers /\ [][NextHandlers]_vars

\* ------------------------------------------------------------- SpecFrame
\* Every operation of the program that sends a request to the backend (the
\* dispatch cycle, the three report operations and the ten listing
\* commands), next to the external writer.  The orders were created one
\* after the other; order 1 is one day before its ETA and has a task, the
\* later orders have no ETA yet.  Five containers: three in transit
\* whose drivers' names join to one key ("A_B" "C" twice, "A" "B_C" once)
\* and who carry orders 1, 2 and 3; one in transit for order 1 whose driver
\* has no last name; one that has arrived, belongs to no order and has
\* empty names.
\* A behaviour has one command, at any point of the cycle and of the
\* writer's changes: no command reads what an earlier command has put out.
InitFrame ==
  /\ ReportQuiet
  /\ clock = InitClock
  /\ orders = [o \in 1..FrameOrders |->
                 [status |-> "New",
                  eta |-> IF o = 1 THEN IsoTs(HoursPerDay + 20) ELSE NullTs,
                  last_sync |-> 0, creation_date |-> o - 1,
                  has_loading_photo |-> FALSE, has_local_charges |-> FALSE,
                  has_tex |-> FALSE, container_count |-> 1]]
  /\ tasks = <<[status |-> "ToDo", last_sync |-> 0, due_date |-> IsoTs(0),
                order_id |-> 1]>>
  /\ containers =
       LET FrameContainer(order_id, first_name, last_name) ==
             [arrival_turkmenistan_date |-> NullTs,
              client_receiving_date |-> NullTs,
              last_sync |-> 0, order_id |-> order_id,
              driver_first_name |-> [kind |-> "text", s |-> first_name],
              driver_last_name |-> last_name]
       IN
       <<FrameContainer(1, "A_B", [kind |-> "text", s |-> "C"]),
         FrameContainer(2, "A", [kind |-> "text", s |-> "B_C"]),
         FrameContainer(3, "A_B", [kind |-> "text", s |-> "C"]),
         FrameContainer(1, "Ali", [kind |-> "null", s |-> ""]),
         [arrival_turkmenistan_date |-> IsoTs(0), client_receiving_date |-> NullTs,
          last_sync |-> InitClock, order_id |-> 0,
          driver_first_name |-> [kind |-> "text", s |-> ""],
          driver_last_name |-> [kind |-> "text", s |-> ""]]>>

NextFrame ==
  \/ \E fail \in BOOLEAN : CycleStart(fail)
  \/ \E fail \in BOOLEAN : QueryContainers(fail)
  \/ \E fail \in BOOLEAN : QueryTasks(fail)
  \/ \E fail \in BOOLEAN : QueryUrgent(fail)
  \/ \E ok \in BOOLEAN : SendReturns(ok)
  \/ SleepReturns
  \/ CycleExit
  \/ \E o \in OrderIds, s \in SpecStatuses : BackendSync(o, s)
  \/ \E gen \in {"ok", "query_fail", "build_fail"}, partial \in BOOLEAN :
       \E reply_ok \in BOOLEAN : ReportPdfGenerate(reply_ok, gen, partial)
  \/ \E ok \in BOOLEAN : ReportPdfFailed(ok)
  \/ \E send_ok \in BOOLEAN : ReportPdfSent(send_ok)
  \/ /\ out_report = NoReport /\ out_pdf = NoPdf /\ out_list = NoList
     /\ replies = <<>>
     /\ \/ \E fail \in BOOLEAN : ReportCmd(fail)
        \/ \E gen \in {"ok", "query_fail", "build_fail"}, partial \in BOOLEAN :
             GeneratePdfReport(gen, partial)
        \/ ReportPdfCmd
        \/ \E fail \in BOOLEAN : UrgentCmd(fail)
        \/ \E fail \in BOOLEAN : OrdersCmd(fail)
        \/ \E st \in ReportStatuses, fail \in BOOLEAN : StatusFilterCmd(st, fail)
        \/ \E fail \in BOOLEAN, bad_in \in BOOLEAN : TodayTasksCmd(fail, bad_in)
        \/ \E num \in 0..(FrameOrders + 1), fail \in 0..3 : OrderDetailCmd(num, fail)
        \/ \E fail \in BOOLEAN : ContainersCmd(fail)
        \/ \E fail \in BOOLEAN : DriversCmd(fail)
        \/ \E fail \in BOOLEAN : Completed30Cmd(fail)
        \/ \E fail \in BOOLEAN : NoPhotosCmd(fail)
        \/ \E fail \in 0..2 : StatusDbCmd(fail)

SpecFrame == InitFrame /\ [][NextFrame]_vars


\* ================================================================ claims
\* The step in which a cycle whose four queries succeeded composes its
\* messages: query 4 is answered.
Composes == pc = "q4" /\ pc' \in {"send", "done"} /\ q_fail' = 0

\* The cycle is over (the job is in its await-free tail) and no query raised.
CycleOverQueriesOk == pc = "done" /\ q_fail = 0

\* C1: in a cycle whose queries succeed, with N subscribers in the registry,
\* every composed notification gets exactly N delivery attempts, one per
\* subscriber, whatever deliveries failed.
C1_ExactlyNAttempts ==
  CycleOverQueriesOk =>
    \A j \in 1..Len(notifs) : \A c \in ChatIds :
      attempts[<<j, c>>] = IF c \in snap[1] THEN 1 ELSE 0

\* C2: every cycle whose queries all succeed ends with the watermark equal
\* to the `now` captured at its start.
C2_WatermarkAdvances == CycleOverQueriesOk => last_check_time = now

\* C3: a failing backend query aborts the cycle: the watermark keeps its
\* value, no delivery is attempted, and the next cycle queries with the same
\* `since`.
C3_QueryFailureAborts ==
  [][/\ (pc' = "done" /\ q_fail' # 0) =>
          /\ outcome' = "query_failed"
          /\ last_check_time' = last_check_time
          /\ last_check_time' = q_since'
          /\ attempts' = NoAttempts
     /\ (pc = "idle" /\ outcome = "query_failed" /\ pc' # "idle") =>
          q_since' = q_since]_vars

\* C3 witness: a cycle aborted on the fourth query after an earlier cycle
\* had advanced the watermark.
C3_Witness ==
  pc = "done" /\ q_fail = 4 /\ last_check_time > InitClock /\ Keys(subscribers) # {}

\* C4: no step sets the watermark to an earlier value.
C4_WatermarkMonotonic == [][last_check_time' >= last_check_time]_vars

\* C4 witness: a completed cycle has moved the watermark forward.
C4_Witness == pc = "done" /\ outcome = "ok" /\ last_check_time > q_since

\* C5: a registry mutation during a fan-out does not abort it, and every
\* subscriber that was in the registry when an iteration began is attempted.
C5_IterationSafe ==
  CycleOverQueriesOk =>
    /\ outcome # "iter_error"
    /\ \A j \in 1..Len(notifs) : \A c \in snap[j] : attempts[<<j, c>>] >= 1

\* C6: after /subscribe the id is a member, after /unsubscribe it is not;
\* subscribing a member and unsubscribing a non-member change nothing, and
\* neither raises.
C6_RegistryLaws ==
  [][\A c \in ChatIds :
       /\ SubscribeCmd(c) =>
            /\ c \in Keys(subscribers')
            /\ Keys(subscribers') \ {c} = Keys(subscribers) \ {c}
            /\ (c \in Keys(subscribers) => Keys(subscribers') = Keys(subscribers))
            /\ reply' # "KeyError"
       /\ UnsubscribeCmd(c) =>
            /\ c \notin Keys(subscribers')
            /\ Keys(subscribers') \ {c} = Keys(subscribers) \ {c}
            /\ (c \notin Keys(subscribers) => Keys(subscribers') = Keys(subscribers))
            /\ reply' # "KeyError"]_vars

\* C6 witness: a non-member has unsubscribed after the registry was emptied.
C6_Witness == reply = "not_subscribed" /\ Keys(subscribers) = {} /\ cmds = NumAdmins + 1

\* The rows query 4 returns whose ETA parses and lies 0..3 days after `now`.
AtReminderPoint(o, now_) ==
  /\ orders[o].status \notin TerminalStatuses
  /\ Truthy(orders[o].eta) /\ ParseOk(orders[o].eta)
  /\ DaysLeft(orders[o].eta, now_) \in 0..3

UrgentIdx(ns, o) == {j \in 1..Len(ns) : ns[j].kind = "urgent" /\ ns[j].order = o}

\* C7: an order yields a reminder iff it is non-terminal with a parseable
\* ETA 0..3 days ahead, and then exactly one reminder per subscriber.
C7_ReminderPoints ==
  [][/\ Composes =>
          \A o \in DOMAIN orders :
            Cardinality(UrgentIdx(notifs', o)) =
              IF AtReminderPoint(o, now) THEN 1 ELSE 0
     /\ (pc' = "done" /\ q_fail' = 0) =>
          \A j \in 1..Len(notifs') :
            notifs'[j].kind = "urgent" =>
              \A c \in ChatIds :
                attempts'[<<j, c>>] = IF c \in snap'[1] THEN 1 ELSE 0]_vars

\* --------------------------------------------------- claims on the reports
OrdersListed == out_list.cmd = "orders" /\ out_list.ok
UrgentListed == out_list.cmd = "urgent" /\ out_list.ok

RowsOf(rows) == {rows[j] : j \in 1..Len(rows)}
Parseable(o) == Truthy(orders[o].eta) /\ ParseOk(orders[o].eta)

\* C8: an order whose status is Completed or Cancelled is never treated as
\* urgent: /urgent does not list it and the urgent figure of /report does
\* not count it.
C8_TerminalNeverUrgent ==
  /\ UrgentListed =>
       \A r \in RowsOf(out_list.rows) :
         orders[r.order].status \notin TerminalStatuses
  /\ out_report.ok =>
       \A o \in out_report.urgent_orders :
         orders[o].status \notin TerminalStatuses

\* The orders /orders put in urgency group g.
Group(g) == {r.order : r \in {x \in RowsOf(out_list.rows) : x.label = g}}
UrgencyGroups == {"overdue", "today", "soon"}
ListedOrders == {r.order : r \in RowsOf(out_list.rows)}

\* C9 as stated: the groups overdue, dueToday and dueSoon are pairwise
\* disjoint, their union is every listed (non-terminal) order that has a
\* readable due date, and every listed order with a parseable ETA carries
\* exactly one group label.
C9_GroupsCoverAllDated ==
  OrdersListed =>
    /\ \A g, h \in UrgencyGroups : g # h => Group(g) \cap Group(h) = {}
    /\ UNION {Group(g) : g \in UrgencyGroups} =
         {o \in ListedOrders : Parseable(o)}
    /\ \A r \in RowsOf(out_list.rows) :
         Parseable(r.order) => r.label \in UrgencyGroups

\* C9: /orders lists each active order once; overdue is exactly the listed
\* orders with days < 0, dueToday those with days = 0 and dueSoon those with
\* 0 < days <= 3 (ETA parseable), so the groups are pairwise disjoint and
\* their union is the listed orders with a parseable ETA at most 3 days
\* ahead; an order due later carries the plain date and no group.
C9_GroupsPartition ==
  OrdersListed =>
    /\ Len(out_list.rows) = Cardinality(ListedOrders)
    /\ ListedOrders = {o \in DOMAIN orders : orders[o].status \in ActiveStatuses}
    /\ \A g, h \in UrgencyGroups : g # h => Group(g) \cap Group(h) = {}
    /\ Group("overdue") =
         {o \in ListedOrders : Parseable(o) /\ DaysLeft(orders[o].eta, clock) < 0}
    /\ Group("today") =
         {o \in ListedOrders : Parseable(o) /\ DaysLeft(orders[o].eta, clock) = 0}
    /\ Group("soon") =
         {o \in ListedOrders : /\ Parseable(o)
                                /\ DaysLeft(orders[o].eta, clock) > 0
                                /\ DaysLeft(orders[o].eta, clock) <= 3}
    /\ Group("date") =
         {o \in ListedOrders : Parseable(o) /\ DaysLeft(orders[o].eta, clock) > 3}

C9_Witness ==
  /\ OrdersListed
  /\ \E o \in Group("soon") : DaysLeft(orders[o].eta, clock) = 3
  /\ Group("date") # {}

CommonFigures == DOMAIN NoFigures

\* C10: every figure that /report and the document report both show has the
\* same value in both, for the same snapshot of the three tables.
C10_SameFigures ==
  (out_report.ok /\ out_pdf.ok) =>
    \A f \in CommonFigures : out_report.fig[f] = out_pdf.fig[f]

\* The records a listing command was given, by the command's query.
ListedTasks == {r.order : r \in RowsOf(out_list.rows)}

\* C11: a record with an unparseable timestamp never aborts /orders,
\* /status, /today, /urgent or /report: when the queries succeed the command
\* gives its normal output, with every other record in it.
C11_BadTimestampTolerated ==
  [][/\ ReportCmd(FALSE) => out_report'.ok
     /\ OrdersCmd(FALSE) =>
          /\ out_list'.ok
          /\ \E ids \in ActiveQuery : Len(out_list'.rows) = Len(ids)
     /\ UrgentCmd(FALSE) =>
          /\ out_list'.ok
          /\ \A o \in DOMAIN orders :
               (AtReminderPoint(o, clock)) =>
                 \E j \in 1..Len(out_list'.rows) : out_list'.rows[j].order = o
     /\ \A st \in ReportStatuses : StatusFilterCmd(st, FALSE) =>
          /\ out_list'.ok
          /\ \E ids \in StatusQuery(st) : Len(out_list'.rows) = Len(ids)
     /\ \A bad_in \in BOOLEAN : TodayTasksCmd(FALSE, bad_in) =>
          /\ out_list'.ok
          /\ \E ids \in TodayQuery(clock, bad_in) :
               Len(out_list'.rows) = Len(ids)]_vars

\* ------------------------------------------------- claims on the handlers
\* C12: an admin-only command from a chat outside the administrator list
\* gets exactly one reply, the rejection, and changes nothing else; an
\* administrator is served whether or not it is in the registry.
C12_AdminOnly ==
  [][\A c \in ChatIds :
       /\ (c \notin ADMIN_CHAT_IDS /\
            (CheckUpdatesCmd(c) \/ StatsCmd(c) \/
             \E has_args \in BOOLEAN : NotifyAllCmd(c, has_args))) =>
            /\ replies' = <<"admin_only">>
            /\ UNCHANGED <<subscribers, last_check_time, bcast, orders, tasks,
                           containers>>
       /\ (c \in ADMIN_CHAT_IDS /\ StatsCmd(c)) => replies' = <<"stats">>
       /\ (c \in ADMIN_CHAT_IDS /\ CheckUpdatesCmd(c)) => replies' = <<"checking">>
       /\ \A ok \in BOOLEAN : CheckUpdatesDone(ok) =>
            replies' = IF ok THEN <<"checking", "check_done">>
                       ELSE <<"checking">>
       /\ (c \in ADMIN_CHAT_IDS /\ NotifyAllCmd(c, TRUE)) =>
            "admin_only" \notin {replies'[j] : j \in 1..Len(replies')}]_vars

\* C12 witness: every chat is in the registry and the last command, from a
\* subscriber that is no administrator, was rejected.
C12_Witness ==
  /\ replies = <<"admin_only">>
  /\ Keys(subscribers) = ChatIds
  /\ ChatIds \ ADMIN_CHAT_IDS # {}

\* C14: the registry stays as it was when the broadcast began (snap) until
\* /notify_all reports, and then every subscriber got exactly one delivery
\* attempt, failed or not, and sent + failed is the number of subscribers.
C14_BroadcastCounts ==
  /\ bcast.pc \in {"send", "sleep"} => bcast.snap = Keys(subscribers)
  /\ bcast.pc # "iter_error"
  /\ bcast.pc = "reported" =>
       /\ \A c \in ChatIds :
            bcast.attempts[c] = IF c \in bcast.snap THEN 1 ELSE 0
       /\ bcast.sent_count + bcast.failed_count = Cardinality(bcast.snap)

\* C14 witness: a broadcast has reported after one delivery failed and a
\* later one succeeded.
C14_Witness ==
  /\ bcast.pc = "reported"
  /\ bcast.failed_count >= 1
  /\ bcast.sent_count >= 1

\* Chat c sends a command other than /subscribe and /unsubscribe.
Interacts(c) ==
  \/ StartCmd(c)
  \/ HelpCmd(c)
  \/ CheckUpdatesCmd(c)
  \/ StatsCmd(c)
  \/ \E has_args \in BOOLEAN : NotifyAllCmd(c, has_args)

\* C16: a chat is a subscriber after /subscribe and after its first
\* interaction, whatever command that is, and stays one until it sends
\* /unsubscribe.
C16_ImplicitSubscription ==
  [][\A c \in ChatIds :
       /\ SubscribeCmd(c) => c \in Keys(subscribers')
       /\ (cmds = 0 /\ Interacts(c)) => c \in Keys(subscribers')
       /\ (c \in Keys(subscribers) /\ ~UnsubscribeCmd(c)) => c \in Keys(subscribers')]_vars

\* C13: when /report_pdf finishes, the report file it created (the one
\* named by the instant of its generation) is not on disk, whether the
\* document was sent, its generation failed part-way, or sending it raised.
C13_NoArtifactLeft ==
  [][/\ (hpc = "pdf_generate" /\ hpc' = "pdf_failed") => clock \notin report_files'
     /\ (hpc = "pdf_send" /\ hpc' = "none") => pdf_path \notin report_files']_vars

\* ---------------------------------------------- claims on the dispatcher
\* C15: a container whose last synchronisation is at or after the watermark
\* yields, in that cycle, a notification to the subscribers.
C15_ContainerArrivalNotified ==
  [][Composes =>
       \A i \in DOMAIN containers :
         ChangedSince(containers[i], q_since) =>
           \E j \in 1..Len(notifs') :
             notifs'[j].kind = "container" /\ notifs'[j].order = i]_vars

\* C17: reminders are not deduplicated: when the previous cycle completed
\* and an order was, then and now, non-terminal at the same reminder point,
\* this cycle composes its reminder again, and a cycle whose queries succeed
\* attempts each of its reminders for every subscriber registered when its
\* fan-out began.
C17_NoDedupAcrossCycles ==
  [][/\ (outcome = "ok" /\ Composes) =>
          \A o \in DOMAIN orders :
            (/\ AtReminderPoint(o, q_since)
             /\ AtReminderPoint(o, now)
             /\ DaysLeft(orders[o].eta, q_since) = DaysLeft(orders[o].eta, now)) =>
              Cardinality(UrgentIdx(notifs', o)) = 1
     /\ (pc' = "done" /\ q_fail' = 0) =>
          \A j \in 1..Len(notifs') :
            notifs'[j].kind = "urgent" =>
              \A c \in snap'[1] : attempts'[<<j, c>>] >= 1]_vars

\* C18: the program only reads the backend: a step that changes an order, a
\* task or a container is a step of the external writer, never of a dispatch
\* cycle, a listing or report command, or the document generation.
C18_BackendReadOnly ==
  [][(orders' # orders \/ tasks' # tasks \/ containers' # containers) =>
       \E o \in OrderIds, st \in SpecStatuses : BackendSync(o, st)]_vars

\* C18 witness: a dispatch cycle has run to its end and /order has read
\* an order, its containers and its tasks, the writer has written nothing,
\* and the three tables hold the rows they began with.
C18_Witness ==
  /\ outcome = "ok" /\ pc = "idle"
  /\ out_list.cmd = "order" /\ out_list.ok
  /\ Len(out_list.containers) = 2 /\ Len(out_list.tasks) = 1
  /\ syncs = 0
  /\ DOMAIN orders = 1..FrameOrders
  /\ \A o \in DOMAIN orders : orders[o].last_sync = 0 /\ orders[o].status = "New"
  /\ Len(containers) = 5
  /\ Len(tasks) = 1

\* ------------------------------------------------------- claims on utils
\* C19: each of the seven known statuses maps to a glyph that is neither the
\* default nor the glyph of another known status, every other status maps
\* to the default, and the dispatcher's table gives the same glyph as
\* status_to_emoji.
C19_GlyphMapping ==
  /\ util_out.glyph # "" =>
       /\ util_in.status \in OrderStatuses =>
            /\ util_out.glyph # DefaultGlyph
            /\ \A other \in OrderStatuses \ {util_in.status} :
                 util_out.glyph # status_to_emoji(other)
       /\ util_in.status \notin OrderStatuses => util_out.glyph = DefaultGlyph
  /\ (util_out.glyph # "" /\ util_out.table_glyph # "") =>
       util_out.glyph = util_out.table_glyph
  /\ Cardinality(OrderStatuses) = 7

\* C19 witness: both lookups were made for the last known status.
C19_Witness ==
  /\ util_in.status = "Cancelled"
  /\ util_out.glyph = "U+274C"
  /\ util_out.table_glyph = "U+274C"

\* The calendar day of an instant in the fixed zone, UTC+5.
LocalDay(t) == (t + TZOffsetHours) \div HoursPerDay

\* C20: calculate_days_until is 1 for a timestamp exactly 24 hours after
\* the current instant, 0 for one on the current calendar day of the fixed
\* zone, and none for an absent or unparseable argument.
C20_DateOnlyArithmetic ==
  util_out.calc # "not_called" =>
    /\ util_in.ts.kind \in {"null", "empty", "bad"} => util_out.calc = "none"
    /\ util_in.ts.kind = "iso" =>
         /\ util_out.calc = "int"
         /\ util_in.ts.t = clock + HoursPerDay => util_out.days = 1
         /\ LocalDay(util_in.ts.t) = LocalDay(clock) => util_out.days = 0

\* C20 witness: the result 1 for a timestamp 24 hours after 23:00 local.
C20_Witness ==
  /\ util_out.calc = "int"
  /\ util_out.days = 1
  /\ util_in.ts.t = clock + HoursPerDay
  /\ (clock + TZOffsetHours) % HoursPerDay = HoursPerDay - 1

\* C21: format_date returns the not-set sentinel for an absent argument and,
\* for a non-empty string that does not parse, the first 10 characters of
\* the string, or all of it when it has fewer than 10.
C21_FormatDateFallback ==
  util_out.text.form # "not_called" =>
    /\ util_in.ts.kind \in {"null", "empty"} => util_out.text.form = "not_set"
    /\ util_in.ts.kind = "bad" =>
         /\ util_out.text.form = "raw"
         /\ Len(util_in.raw) < 10 => util_out.text.chars = util_in.raw
         /\ Len(util_in.raw) >= 10 =>
              util_out.text.chars = [i \in 1..10 |-> util_in.raw[i]]

\* ----------------------------------------------- claims on the scheduling
\* C23: the changed-record queries of a cycle all use the watermark as it
\* was when the cycle started, and nothing changes the watermark while the
\* cycle is suspended.
C23_SameSinceForAllQueries ==
  [][/\ \A j \in DOMAIN q_sinces' : q_sinces'[j] = q_since'
     /\ (pc = "idle" /\ pc' # "idle") => q_since' = last_check_time
     /\ pc' \in {"q2", "q3", "q4", "send", "sleep"} =>
          last_check_time' = q_since']_vars

\* C23 witness: the three queries were issued, time has passed and a
\* command was handled while the cycle is suspended.
C23_Witness ==
  /\ pc \in {"send", "sleep"}
  /\ Len(q_sinces) = 3
  /\ clock > now
  /\ cmds > 0

\* ------------------------------------------------ claims on the watermark
\* C24: a cycle composes no status message for a change of an order (the
\* order with its present last_sync_date) that an earlier cycle has already
\* sent a status message for.
C24_ChangeNotifiedOnce ==
  [][(pc = "q4" \/ pc = "send" \/ pc = "sleep") =>
       (StatusChanges(notifs', IF pc = "q4" THEN 0 ELSE k, k') \cap hist.notified
          = {})]_vars

StatusIdx(ns, o) == {j \in 1..Len(ns) : ns[j].kind = "status" /\ ns[j].order = o}

\* C25: a cycle composes one reminder for every order at a reminder point,
\* changed or not, and one status message for every changed order, and
\* each message of the cycle is sent once to every subscriber.
C25_RemindersIndependent ==
  [][/\ Composes =>
          \A o \in DOMAIN orders :
            /\ AtReminderPoint(o, now) => Cardinality(UrgentIdx(notifs', o)) = 1
            /\ (\E j \in DOMAIN changed_orders : changed_orders[j].id = o) =>
                 Cardinality(StatusIdx(notifs', o)) = 1
     /\ (pc' = "done" /\ q_fail' = 0) =>
          \A j \in 1..Len(notifs') : \A c \in ChatIds :
            attempts'[<<j, c>>] = IF c \in snap'[1] THEN 1 ELSE 0]_vars

\* C26: a task whose status is Completed is in no row of the overdue group
\* of /today and is not among the overdue tasks /report counts.
C26_CompletedTaskNeverOverdue ==
  /\ (out_list.cmd = "today" /\ out_list.ok) =>
       \A r \in RowsOf(out_list.rows) :
         r.label = "overdue" => tasks[r.order].status # "Completed"
  /\ out_report.ok =>
       out_report.overdue_tasks <=
         Cardinality({i \in DOMAIN tasks : tasks[i].status # "Completed"})

\* C27: the watermark is never past a change of an order that became
\* visible with a last_sync_date at or after the process start and for
\* which no cycle has composed a status message.
C27_NoChangeLost ==
  \A o \in DOMAIN orders :
    (orders[o].last_sync >= InitClock /\ orders[o].last_sync < last_check_time) =>
      <<o, orders[o].last_sync>> \in hist.composed

\* A step of the job that ends a cycle whose queries and loops all ran.
CycleCompletes == pc \in {"q4", "send", "sleep"} /\ pc' = "done" /\ outcome' = "ok"

\* C28: only a dispatch cycle that runs to its end writes the watermark;
\* /check_updates starts no check and leaves the job's state alone, and
\* /stats changes nothing but its reply.
C28_WatermarkWrittenByCycleOnly ==
  [][/\ last_check_time' # last_check_time =>
          (CycleCompletes /\ last_check_time' = now')
     /\ \A c \in ChatIds : (CheckUpdatesCmd(c) \/ StatsCmd(c) \/
                             \E ok \in BOOLEAN : CheckUpdatesDone(ok)) =>
          /\ last_check_time' = last_check_time
          /\ UNCHANGED <<pc, now, notifs, outcome, q_since, running>>]_vars

\* C28 witness: an administrator's /check_updates was answered while a
\* cycle is suspended, after an earlier cycle had advanced the watermark.
C28_Witness ==
  /\ replies = <<"checking", "check_done">>
  /\ pc \in {"send", "sleep"}
  /\ last_check_time > InitClock

\* C29: before any command the registry is the administrator list; /start and
\* /subscribe add the chat, /unsubscribe removes it (an administrator too),
\* and no other step (dispatch cycle, /notify_all, a failed delivery, any
\* other command) changes the registry.
C29_RegistryFollowsCommands ==
  [][/\ cmds' = 0 => Keys(subscribers') = ADMIN_CHAT_IDS
     /\ \A c \in ChatIds : (StartCmd(c) \/ SubscribeCmd(c)) =>
            Keys(subscribers') = Keys(subscribers) \cup {c}
     /\ \A c \in ChatIds : UnsubscribeCmd(c) =>
            Keys(subscribers') = Keys(subscribers) \ {c}
     /\ (~ \E c \in ChatIds : StartCmd(c) \/ SubscribeCmd(c) \/ UnsubscribeCmd(c)) =>
            Keys(subscribers') = Keys(subscribers)]_vars

\* C29 witness: an administrator has unsubscribed, another chat has joined,
\* and a later cycle has delivered and completed without the administrator.
C29_Witness ==
  /\ pc = "done" /\ outcome = "ok"
  /\ Keys(subscribers) = ChatIds \ ADMIN_CHAT_IDS
  /\ Keys(subscribers) # {}
  /\ \E j \in 1..Len(notifs) : \A c \in Keys(subscribers) : attempts[<<j, c>>] = 1

\* C30: in the /report summary the containers in transit and the delivered
\* containers together are at most all containers.
C30_TransitAndDeliveredDisjoint ==
  out_report.ok =>
    out_report.fig.in_transit + out_report.delivered
      <= out_report.fig.total_containers

====
